---- MODULE Spec2Model ----
(***************************************************************************)
(* Xiangqi rules engine and opponent search.                               *)
(*   boardUtils.ts      board geometry                                      *)
(*   moveValidation.ts  per-piece rules, check and checkmate detection      *)
(*   aiEngine.ts        AIEngine: evaluation, minimax, getBestMove          *)
(*   useChessGame.ts    the game hook: clicks, moves, AI turn, undo, reset  *)
(* A board is board[row][col], rows 0..9 and columns 0..8, as in the code.  *)
(***************************************************************************)
EXTENDS Integers, Sequences, FiniteSets, TLC

VARIABLES board, currentPlayer, moveCount, lastMove,
          aiPc, aiColor, aiDifficulty, aiRandomFired, aiResult,
          gameStatus, gameMode, selectedPosition, moveHistory, capturedPieces,
          stateIsInCheck, winner, isAIThinking, operationLock,
          aiPending, unlockTimers, inputs, expiry

vars == <<board, currentPlayer, moveCount, lastMove,
          aiPc, aiColor, aiDifficulty, aiRandomFired, aiResult,
          gameStatus, gameMode, selectedPosition, moveHistory, capturedPieces,
          stateIsInCheck, winner, isAIThinking, operationLock,
          aiPending, unlockTimers, inputs, expiry>>

\* The fields of gameState other than board and currentPlayer (theme,
\* validMoves and animatingPieces are display only), the two state hooks
\* isAIThinking and operationLock, the searches awaited by handleAIMove, the
\* pending timers of undoMove and the events still to come in a recorded
\* session.
hookVars == <<gameStatus, gameMode, selectedPosition, moveHistory, capturedPieces,
              stateIsInCheck, winner, isAIThinking, operationLock,
              aiPending, unlockTimers, inputs>>

gameVars == <<board, currentPlayer, moveCount, lastMove>>

\* The engine under test, and for FastAIEngine the node counts at which its
\* clock passes the three limits of thinkingTime.
aiVars == <<aiPc, aiColor, aiDifficulty, aiRandomFired, aiResult, expiry>>

\* Number of plies played from an opening position of the rules model.
MaxMoves == 2

\* Most moves made (calls of handleMove) in a run of the game model.
MaxGameMoves == 2

\* Most searches awaited at once, and most pending timers of undoMove.
MaxPending == 1

\* Largest index a Math.random() draw of the game model's engine selects.
MaxRandomIndex == 1

Rows == 0..9

Cols == 0..8

Positions == [row : Rows, col : Cols]

PieceColors == {"red", "black"}

PieceTypes == {"king", "advisor", "elephant", "horse", "chariot", "cannon", "soldier"}

\* The empty cell (null in the code).
null == [type |-> "null", color |-> "null", id |-> 0]

\* No cell (null selectedPosition).
NoPosition == [row |-> -1, col |-> -1]

\* A clock that passes no limit during the search.
NoExpiry == [at70 |-> -1, at80 |-> -1, at100 |-> -1]

\* A piece; id stands for the id string built from colour, type and the
\* cell of creation.
createPiece(type, color, row, col) ==
    [type |-> type, color |-> color, id |-> 1 + row * 9 + col]

Pos(r, c) == [row |-> r, col |-> c]

Abs(x) == IF x < 0 THEN -x ELSE x

Max(a, b) == IF a >= b THEN a ELSE b

Min(a, b) == IF a <= b THEN a ELSE b

enemyOf(color) == IF color = "red" THEN "black" ELSE "red"

createInitialBoard ==
    [r \in Rows |-> [c \in Cols |->
        IF r = 0 THEN
            createPiece(CASE c \in {0, 8} -> "chariot"
                          [] c \in {1, 7} -> "horse"
                          [] c \in {2, 6} -> "elephant"
                          [] c \in {3, 5} -> "advisor"
                          [] OTHER -> "king", "black", r, c)
        ELSE IF r = 2 /\ c \in {1, 7} THEN createPiece("cannon", "black", r, c)
        ELSE IF r = 3 /\ c % 2 = 0 THEN createPiece("soldier", "black", r, c)
        ELSE IF r = 6 /\ c % 2 = 0 THEN createPiece("soldier", "red", r, c)
        ELSE IF r = 7 /\ c \in {1, 7} THEN createPiece("cannon", "red", r, c)
        ELSE IF r = 9 THEN
            createPiece(CASE c \in {0, 8} -> "chariot"
                          [] c \in {1, 7} -> "horse"
                          [] c \in {2, 6} -> "elephant"
                          [] c \in {3, 5} -> "advisor"
                          [] OTHER -> "king", "red", r, c)
        ELSE null]]

isValidPosition(position) ==
    /\ position.row >= 0 /\ position.row <= 9
    /\ position.col >= 0 /\ position.col <= 8

isInPalace(position, color) ==
    IF color = "red"
    THEN position.row >= 7 /\ position.row <= 9 /\ position.col >= 3 /\ position.col <= 5
    ELSE position.row >= 0 /\ position.row <= 2 /\ position.col >= 3 /\ position.col <= 5

isInOwnTerritory(position, color) ==
    IF color = "red" THEN position.row >= 5 ELSE position.row <= 4

\* The cells strictly between from and to, in walking order; empty when the
\* two cells are not on one row or column.
getLinePath(from, to) ==
    LET rowDiff == to.row - from.row
        colDiff == to.col - from.col
        rowStep == IF rowDiff = 0 THEN 0 ELSE IF rowDiff > 0 THEN 1 ELSE -1
        colStep == IF colDiff = 0 THEN 0 ELSE IF colDiff > 0 THEN 1 ELSE -1
    IN  IF rowDiff # 0 /\ colDiff # 0
        THEN << >>
        ELSE [i \in 1..(Abs(rowDiff) + Abs(colDiff) - 1) |->
                 Pos(from.row + i * rowStep, from.col + i * colStep)]

isPathBlocked(b, path) ==
    \E i \in 1..Len(path) : b[path[i].row][path[i].col] # null

isValidKingMove(b, piece, from, to) ==
    IF ~isInPalace(to, piece.color) THEN FALSE
    ELSE
        LET rowDiff == Abs(to.row - from.row)
            colDiff == Abs(to.col - from.col)
        IN  IF (rowDiff = 1 /\ colDiff = 0) \/ (rowDiff = 0 /\ colDiff = 1)
            THEN TRUE
            ELSE IF from.col = to.col /\ from.row # to.row
                    /\ b[to.row][to.col] # null
                    /\ b[to.row][to.col].type = "king"
                    /\ b[to.row][to.col].color # piece.color
                 THEN ~isPathBlocked(b, getLinePath(from, to))
                 ELSE FALSE

isValidAdvisorMove(b, piece, from, to) ==
    IF ~isInPalace(to, piece.color) THEN FALSE
    ELSE Abs(to.row - from.row) = 1 /\ Abs(to.col - from.col) = 1

\* isValidElephantMove without the test of the eye cell.
isValidElephantMove_NoEyeTest(b, piece, from, to) ==
    IF ~isInOwnTerritory(to, piece.color) THEN FALSE
    ELSE Abs(to.row - from.row) = 2 /\ Abs(to.col - from.col) = 2

isValidElephantMove(b, piece, from, to) ==
    IF ~isInOwnTerritory(to, piece.color) THEN FALSE
    ELSE
        LET rowDiff == to.row - from.row
            colDiff == to.col - from.col
        IN  IF Abs(rowDiff) # 2 \/ Abs(colDiff) # 2 THEN FALSE
            ELSE b[from.row + rowDiff \div 2][from.col + colDiff \div 2] = null

\* isValidHorseMove with the leg taken next to the origin along the axis of
\* the single step.
isValidHorseMove_LegOnShortAxis(b, piece, from, to) ==
    LET rowDiff == to.row - from.row
        colDiff == to.col - from.col
        isValidL == \/ (Abs(rowDiff) = 2 /\ Abs(colDiff) = 1)
                    \/ (Abs(rowDiff) = 1 /\ Abs(colDiff) = 2)
        legRow == IF Abs(rowDiff) = 2 THEN from.row ELSE from.row + rowDiff
        legCol == IF Abs(rowDiff) = 2 THEN from.col + colDiff ELSE from.col
    IN  IF ~isValidL THEN FALSE ELSE b[legRow][legCol] = null

\* isValidHorseMove that also wants the cell next to the origin along the
\* single step to be empty.
isValidHorseMove_BothLegs(b, piece, from, to) ==
    LET rowDiff == to.row - from.row
        colDiff == to.col - from.col
        isValidL == \/ (Abs(rowDiff) = 2 /\ Abs(colDiff) = 1)
                    \/ (Abs(rowDiff) = 1 /\ Abs(colDiff) = 2)
        legRow == IF Abs(rowDiff) = 2 THEN from.row + rowDiff \div 2 ELSE from.row
        legCol == IF Abs(rowDiff) = 2 THEN from.col ELSE from.col + colDiff \div 2
        sideRow == IF Abs(rowDiff) = 2 THEN from.row ELSE from.row + rowDiff
        sideCol == IF Abs(rowDiff) = 2 THEN from.col + colDiff ELSE from.col
    IN  IF ~isValidL THEN FALSE
        ELSE b[legRow][legCol] = null /\ b[sideRow][sideCol] = null

isValidHorseMove(b, piece, from, to) ==
    LET rowDiff == to.row - from.row
        colDiff == to.col - from.col
        isValidL == \/ (Abs(rowDiff) = 2 /\ Abs(colDiff) = 1)
                    \/ (Abs(rowDiff) = 1 /\ Abs(colDiff) = 2)
        legRow == IF Abs(rowDiff) = 2 THEN from.row + rowDiff \div 2 ELSE from.row
        legCol == IF Abs(rowDiff) = 2 THEN from.col ELSE from.col + colDiff \div 2
    IN  IF ~isValidL THEN FALSE ELSE b[legRow][legCol] = null

isValidChariotMove(b, piece, from, to) ==
    IF from.row # to.row /\ from.col # to.col THEN FALSE
    ELSE ~isPathBlocked(b, getLinePath(from, to))

\* isValidCannonMove accepting a capture over one or more screens.
isValidCannonMove_AtLeastOneScreen(b, piece, from, to) ==
    IF from.row # to.row /\ from.col # to.col THEN FALSE
    ELSE
        LET path == getLinePath(from, to)
            blockedCount == Cardinality({i \in 1..Len(path) :
                                            b[path[i].row][path[i].col] # null})
        IN  IF b[to.row][to.col] # null
            THEN blockedCount >= 1
            ELSE blockedCount = 0

isValidCannonMove(b, piece, from, to) ==
    IF from.row # to.row /\ from.col # to.col THEN FALSE
    ELSE
        LET path == getLinePath(from, to)
            blockedCount == Cardinality({i \in 1..Len(path) :
                                            b[path[i].row][path[i].col] # null})
        IN  IF b[to.row][to.col] # null
            THEN blockedCount = 1
            ELSE blockedCount = 0

\* isValidSoldierMove letting a soldier that has crossed the river step
\* along its column in either direction.
isValidSoldierMove_BackwardAfterCrossing(b, piece, from, to) ==
    LET rowDiff == to.row - from.row
        colDiff == to.col - from.col
    IN  IF Abs(rowDiff) + Abs(colDiff) # 1 THEN FALSE
        ELSE IF piece.color = "red" THEN
            IF from.row > 4 THEN rowDiff = -1 /\ colDiff = 0
            ELSE IF colDiff = 0 THEN Abs(rowDiff) = 1
            ELSE rowDiff = 0 /\ Abs(colDiff) = 1
        ELSE
            IF from.row < 5 THEN rowDiff = 1 /\ colDiff = 0
            ELSE IF colDiff = 0 THEN Abs(rowDiff) = 1
            ELSE rowDiff = 0 /\ Abs(colDiff) = 1

isValidSoldierMove(b, piece, from, to) ==
    LET rowDiff == to.row - from.row
        colDiff == to.col - from.col
    IN  IF Abs(rowDiff) + Abs(colDiff) # 1 THEN FALSE
        ELSE IF piece.color = "red" THEN
            IF from.row > 4 THEN rowDiff = -1 /\ colDiff = 0
            ELSE IF colDiff = 0 THEN rowDiff = -1
            ELSE rowDiff = 0 /\ Abs(colDiff) = 1
        ELSE
            IF from.row < 5 THEN rowDiff = 1 /\ colDiff = 0
            ELSE IF colDiff = 0 THEN rowDiff = 1
            ELSE rowDiff = 0 /\ Abs(colDiff) = 1

\* isValidBasicMoveOnly without the test for a destination held by the
\* mover's own colour.
isValidBasicMoveOnly_NoOwnColorTest(b, piece, from, to) ==
    IF ~isValidPosition(to) THEN FALSE
    ELSE IF from.row = to.row /\ from.col = to.col THEN FALSE
    ELSE CASE piece.type = "king" -> isValidKingMove(b, piece, from, to)
           [] piece.type = "advisor" -> isValidAdvisorMove(b, piece, from, to)
           [] piece.type = "elephant" -> isValidElephantMove(b, piece, from, to)
           [] piece.type = "horse" -> isValidHorseMove(b, piece, from, to)
           [] piece.type = "chariot" -> isValidChariotMove(b, piece, from, to)
           [] piece.type = "cannon" -> isValidCannonMove(b, piece, from, to)
           [] piece.type = "soldier" -> isValidSoldierMove(b, piece, from, to)
           [] OTHER -> FALSE

\* isValidBasicMoveOnly with the cannon sent to the chariot's rule.
isValidBasicMoveOnly_CannonAsChariot(b, piece, from, to) ==
    IF ~isValidPosition(to) THEN FALSE
    ELSE IF from.row = to.row /\ from.col = to.col THEN FALSE
    ELSE IF b[to.row][to.col] # null /\ b[to.row][to.col].color = piece.color THEN FALSE
    ELSE CASE piece.type = "king" -> isValidKingMove(b, piece, from, to)
           [] piece.type = "advisor" -> isValidAdvisorMove(b, piece, from, to)
           [] piece.type = "elephant" -> isValidElephantMove(b, piece, from, to)
           [] piece.type = "horse" -> isValidHorseMove(b, piece, from, to)
           [] piece.type = "chariot" -> isValidChariotMove(b, piece, from, to)
           [] piece.type = "cannon" -> isValidChariotMove(b, piece, from, to)
           [] piece.type = "soldier" -> isValidSoldierMove(b, piece, from, to)
           [] OTHER -> FALSE

\* Basic legality: geometry and obstruction only, no self-check filter.
isValidBasicMoveOnly(b, piece, from, to) ==
    IF ~isValidPosition(to) THEN FALSE
    ELSE IF from.row = to.row /\ from.col = to.col THEN FALSE
    ELSE IF b[to.row][to.col] # null /\ b[to.row][to.col].color = piece.color THEN FALSE
    ELSE CASE piece.type = "king" -> isValidKingMove(b, piece, from, to)
           [] piece.type = "advisor" -> isValidAdvisorMove(b, piece, from, to)
           [] piece.type = "elephant" -> isValidElephantMove(b, piece, from, to)
           [] piece.type = "horse" -> isValidHorseMove(b, piece, from, to)
           [] piece.type = "chariot" -> isValidChariotMove(b, piece, from, to)
           [] piece.type = "cannon" -> isValidCannonMove(b, piece, from, to)
           [] piece.type = "soldier" -> isValidSoldierMove(b, piece, from, to)
           [] OTHER -> FALSE

\* Row-major index of a cell, the order of the code's nested row/col loops.
cellIndex(position) == position.row * 9 + position.col

\* The cell the king search of isInCheck stops at: the first cell in
\* row-major order that holds a king of kingColor.
findKing(b, kingColor) ==
    LET kings == {p \in Positions : b[p.row][p.col] # null
                                    /\ b[p.row][p.col].type = "king"
                                    /\ b[p.row][p.col].color = kingColor}
    IN  IF kings = {} THEN {}
        ELSE {CHOOSE p \in kings : \A q \in kings : cellIndex(p) <= cellIndex(q)}

\* isInCheck with the attacker scan stopping one column short (col < 8).
isInCheck_ColumnOffByOne(b, kingColor) ==
    LET kingPosition == findKing(b, kingColor)
    IN  IF kingPosition = {} THEN FALSE
        ELSE \E kp \in kingPosition : \E p \in Positions :
                /\ p.col < 8
                /\ b[p.row][p.col] # null
                /\ b[p.row][p.col].color # kingColor
                /\ isValidBasicMoveOnly(b, b[p.row][p.col], p, kp)

isInCheck(b, kingColor) ==
    LET kingPosition == findKing(b, kingColor)
    IN  IF kingPosition = {} THEN FALSE
        ELSE \E kp \in kingPosition : \E p \in Positions :
                /\ b[p.row][p.col] # null
                /\ b[p.row][p.col].color # kingColor
                /\ isValidBasicMoveOnly(b, b[p.row][p.col], p, kp)

\* The board copy with piece written to `to` and `from` cleared.
movedBoard(b, piece, from, to) ==
    [r \in Rows |-> [c \in Cols |->
        IF r = from.row /\ c = from.col THEN null
        ELSE IF r = to.row /\ c = to.col THEN piece
        ELSE b[r][c]]]

\* isValidMove without the simulated move and its self-check test.
isValidMove_NoSelfCheck(b, piece, from, to) ==
    IF ~isValidPosition(to) THEN FALSE
    ELSE IF from.row = to.row /\ from.col = to.col THEN FALSE
    ELSE IF b[to.row][to.col] # null /\ b[to.row][to.col].color = piece.color THEN FALSE
    ELSE CASE piece.type = "king" -> isValidKingMove(b, piece, from, to)
           [] piece.type = "advisor" -> isValidAdvisorMove(b, piece, from, to)
           [] piece.type = "elephant" -> isValidElephantMove(b, piece, from, to)
           [] piece.type = "horse" -> isValidHorseMove(b, piece, from, to)
           [] piece.type = "chariot" -> isValidChariotMove(b, piece, from, to)
           [] piece.type = "cannon" -> isValidCannonMove(b, piece, from, to)
           [] piece.type = "soldier" -> isValidSoldierMove(b, piece, from, to)
           [] OTHER -> FALSE

isValidMove(b, piece, from, to) ==
    IF ~isValidPosition(to) THEN FALSE
    ELSE IF from.row = to.row /\ from.col = to.col THEN FALSE
    ELSE IF b[to.row][to.col] # null /\ b[to.row][to.col].color = piece.color THEN FALSE
    ELSE
        LET isValidBasicMove ==
                CASE piece.type = "king" -> isValidKingMove(b, piece, from, to)
                  [] piece.type = "advisor" -> isValidAdvisorMove(b, piece, from, to)
                  [] piece.type = "elephant" -> isValidElephantMove(b, piece, from, to)
                  [] piece.type = "horse" -> isValidHorseMove(b, piece, from, to)
                  [] piece.type = "chariot" -> isValidChariotMove(b, piece, from, to)
                  [] piece.type = "cannon" -> isValidCannonMove(b, piece, from, to)
                  [] piece.type = "soldier" -> isValidSoldierMove(b, piece, from, to)
                  [] OTHER -> FALSE
        IN  IF ~isValidBasicMove THEN FALSE
            ELSE ~isInCheck(movedBoard(b, piece, from, to), piece.color)

\* The 90 cells in the order of the code's nested row/col loops.
CellSeq == [i \in 1..90 |-> Pos((i - 1) \div 9, (i - 1) % 9)]

Range(s) == {s[i] : i \in 1..Len(s)}

\* The destinations isValidMove accepts, scanning all 90 cells in order.
getValidMoves(b, piece, from) ==
    SelectSeq(CellSeq, LAMBDA to : isValidMove(b, piece, from, to))

\* isCheckmate without the early return for a side that is not in check.
isCheckmate_NoCheckTest(b, kingColor) ==
    \A from \in Positions :
        (b[from.row][from.col] # null /\ b[from.row][from.col].color = kingColor) =>
            \A move \in Range(getValidMoves(b, b[from.row][from.col], from)) :
                isInCheck(movedBoard(b, b[from.row][from.col], from, move), kingColor)

isCheckmate(b, kingColor) ==
    IF ~isInCheck(b, kingColor) THEN FALSE
    ELSE \A from \in Positions :
            (b[from.row][from.col] # null /\ b[from.row][from.col].color = kingColor) =>
                \A move \in Range(getValidMoves(b, b[from.row][from.col], from)) :
                    isInCheck(movedBoard(b, b[from.row][from.col], from, move), kingColor)

(***************************************************************************)
(* aiEngine.ts                                                             *)
(***************************************************************************)

\* Stands for JavaScript's Infinity: larger than every score the evaluator
\* or the terminal scores can produce.
Infinity == 1000000

\* AI_DIFFICULTIES, randomness in percent, and the same depths with the
\* random substitution switched off.
AI_DIFFICULTIES ==
    {[depth |-> 1, randomness |-> 30],
     [depth |-> 2, randomness |-> 10],
     [depth |-> 3, randomness |-> 5]}

Difficulties ==
    AI_DIFFICULTIES \cup {[depth |-> d, randomness |-> 0] : d \in 1..3}

\* No move (null result of getBestMove).
NoMove == [from |-> Pos(0, 0), to |-> Pos(0, 0), piece |-> null, capturedPiece |-> null]

pieceValues(type) ==
    CASE type = "king" -> 10000
      [] type = "advisor" -> 200
      [] type = "elephant" -> 200
      [] type = "horse" -> 400
      [] type = "chariot" -> 900
      [] type = "cannon" -> 450
      [] type = "soldier" -> 100

kingWeights ==
    << <<0, 0, 0, 8, 9, 8, 0, 0, 0>>,
       <<0, 0, 0, 9, 10, 9, 0, 0, 0>>,
       <<0, 0, 0, 8, 9, 8, 0, 0, 0>> >>

soldierWeights ==
    << <<9, 9, 9, 11, 13, 11, 9, 9, 9>>,
       <<19, 24, 34, 42, 44, 42, 34, 24, 19>>,
       <<19, 24, 32, 37, 37, 37, 32, 24, 19>>,
       <<19, 23, 27, 29, 30, 29, 27, 23, 19>>,
       <<14, 18, 20, 27, 29, 27, 20, 18, 14>>,
       <<7, 0, 13, 0, 16, 0, 13, 0, 7>>,
       <<7, 0, 7, 0, 15, 0, 7, 0, 7>> >>

\* The value of the piece on one cell, with its positional bonus.
pieceScore(piece, row, col) ==
    pieceValues(piece.type) +
    (IF piece.type = "king" THEN
        LET palaceRow == IF piece.color = "red" THEN row - 7 ELSE row
        IN  IF palaceRow >= 0 /\ palaceRow < 3
            THEN kingWeights[palaceRow + 1][col + 1] ELSE 0
     ELSE IF piece.type = "soldier" THEN
        LET soldierRow == IF piece.color = "red" THEN 9 - row ELSE row
        IN  IF soldierRow >= 0 /\ soldierRow < Len(soldierWeights)
            THEN soldierWeights[soldierRow + 1][col + 1] ELSE 0
     ELSE 0)

RECURSIVE materialScore(_, _, _, _)
\* The cell loop of evaluatePosition: cells are the occupied cells in loop
\* order (empty cells are skipped by `continue`), summed from the i-th on.
materialScore(b, color, cells, i) ==
    IF i > Len(cells) THEN 0
    ELSE
        LET row == cells[i].row
            col == cells[i].col
            piece == b[row][col]
        IN  (IF piece.color = color THEN pieceScore(piece, row, col)
             ELSE 0 - pieceScore(piece, row, col))
            + materialScore(b, color, cells, i + 1)

\* The cells of CellSeq that hold a piece, in loop order.
occupiedCells(b) == SelectSeq(CellSeq, LAMBDA p : b[p.row][p.col] # null)

\* evaluatePosition without the bonus for an enemy general in check.
evaluatePosition_NoEnemyCheckBonus(b, color) ==
    materialScore(b, color, occupiedCells(b), 1)
    - (IF isInCheck(b, color) THEN 500 ELSE 0)

evaluatePosition(b, color) ==
    materialScore(b, color, occupiedCells(b), 1)
    - (IF isInCheck(b, color) THEN 500 ELSE 0)
    + (IF isInCheck(b, enemyOf(color)) THEN 500 ELSE 0)

RECURSIVE movesFromCell(_, _, _)
\* The moves pushed by the cell loop of getAllPossibleMoves for the cells
\* of fromCells, from the i-th on.
movesFromCell(b, fromCells, i) ==
    IF i > Len(fromCells) THEN << >>
    ELSE
        LET from == fromCells[i]
            piece == b[from.row][from.col]
            validMoves == getValidMoves(b, piece, from)
        IN  [k \in 1..Len(validMoves) |->
                [from |-> from, to |-> validMoves[k], piece |-> piece,
                 capturedPiece |-> b[validMoves[k].row][validMoves[k].col]]]
            \o movesFromCell(b, fromCells, i + 1)

\* getAllPossibleMoves without the test of the piece's colour.
getAllPossibleMoves_AnyColor(b, color) ==
    movesFromCell(b, SelectSeq(CellSeq, LAMBDA p : b[p.row][p.col] # null), 1)

\* The cells passing `piece && piece.color === color` are visited in loop
\* order.
getAllPossibleMoves(b, color) ==
    movesFromCell(b, SelectSeq(CellSeq, LAMBDA p : /\ b[p.row][p.col] # null
                                                   /\ b[p.row][p.col].color = color), 1)

simulateMove(b, move) ==
    [r \in Rows |-> [c \in Cols |->
        IF r = move.from.row /\ c = move.from.col THEN null
        ELSE IF r = move.to.row /\ c = move.to.col THEN b[move.from.row][move.from.col]
        ELSE b[r][c]]]

\* getEasyMove indexing the capturing moves without the test that there is
\* one: no move comes back when there is none.
getEasyMove_NoLengthTest(b, moves) ==
    LET captureMoves == SelectSeq(moves, LAMBDA move : b[move.to.row][move.to.col] # null)
    IN  IF Len(captureMoves) > 0 THEN Range(captureMoves) ELSE {NoMove}

\* The moves getEasyMove can return: a random capturing move when there is
\* one, otherwise a random move.
getEasyMove(b, moves) ==
    LET captureMoves == SelectSeq(moves, LAMBDA move : b[move.to.row][move.to.col] # null)
    IN  IF Len(captureMoves) > 0 THEN Range(captureMoves) ELSE Range(moves)

RECURSIVE mediumLoop(_, _, _, _, _, _)
mediumLoop(b, moves, color, i, bestMove, bestScore) ==
    IF i > Len(moves) THEN bestMove
    ELSE
        LET score == evaluatePosition(simulateMove(b, moves[i]), color)
        IN  IF score > bestScore
            THEN mediumLoop(b, moves, color, i + 1, moves[i], score)
            ELSE mediumLoop(b, moves, color, i + 1, bestMove, bestScore)

getMediumMove(b, moves, color) ==
    mediumLoop(b, moves, color, 1, moves[1], 0 - Infinity)

RECURSIVE minimax(_, _, _, _, _, _)
RECURSIVE maxLoop(_, _, _, _, _, _, _, _)
RECURSIVE minLoop(_, _, _, _, _, _, _, _)

\* The maximizing loop of minimax from move i on, with its break.
maxLoop(b, moves, color, depth, i, alpha, beta, maxEval) ==
    IF i > Len(moves) THEN maxEval
    ELSE
        LET eval == minimax(simulateMove(b, moves[i]), color, depth - 1, FALSE, alpha, beta)
            newMax == Max(maxEval, eval)
            newAlpha == Max(alpha, eval)
        IN  IF beta <= newAlpha THEN newMax
            ELSE maxLoop(b, moves, color, depth, i + 1, newAlpha, beta, newMax)

\* minLoop whose break compares the reply's value with beta instead of
\* comparing beta with alpha.
minLoop_BreakOnBeta(b, moves, color, depth, i, alpha, beta, minEval) ==
    IF i > Len(moves) THEN minEval
    ELSE
        LET eval == minimax(simulateMove(b, moves[i]), color, depth - 1, TRUE, alpha, beta)
            newMin == Min(minEval, eval)
            newBeta == Min(beta, eval)
        IN  IF eval <= beta THEN newMin
            ELSE minLoop(b, moves, color, depth, i + 1, alpha, newBeta, newMin)

\* The minimizing loop of minimax from move i on, with its break.
minLoop(b, moves, color, depth, i, alpha, beta, minEval) ==
    IF i > Len(moves) THEN minEval
    ELSE
        LET eval == minimax(simulateMove(b, moves[i]), color, depth - 1, TRUE, alpha, beta)
            newMin == Min(minEval, eval)
            newBeta == Min(beta, eval)
        IN  IF newBeta <= alpha THEN newMin
            ELSE minLoop(b, moves, color, depth, i + 1, alpha, newBeta, newMin)

\* minimax without the checkmate test: a mated side has no moves and the
\* node scores 0.
minimax_NoCheckmateTest(b, color, depth, isMaximizing, alpha, beta) ==
    IF depth = 0 THEN evaluatePosition(b, color)
    ELSE
        LET currentColor == IF isMaximizing THEN color ELSE enemyOf(color)
            moves == getAllPossibleMoves(b, currentColor)
        IN  IF Len(moves) = 0 THEN 0
            ELSE IF isMaximizing
            THEN maxLoop(b, moves, color, depth, 1, alpha, beta, 0 - Infinity)
            ELSE minLoop(b, moves, color, depth, 1, alpha, beta, Infinity)

\* color is the engine's own colour (this.color).
minimax(b, color, depth, isMaximizing, alpha, beta) ==
    IF depth = 0 THEN evaluatePosition(b, color)
    ELSE
        LET currentColor == IF isMaximizing THEN color ELSE enemyOf(color)
        IN  IF isCheckmate(b, currentColor)
            THEN (IF isMaximizing THEN -10000 ELSE 10000)
            ELSE
                LET moves == getAllPossibleMoves(b, currentColor)
                IN  IF Len(moves) = 0 THEN 0
                    ELSE IF isMaximizing
                    THEN maxLoop(b, moves, color, depth, 1, alpha, beta, 0 - Infinity)
                    ELSE minLoop(b, moves, color, depth, 1, alpha, beta, Infinity)

RECURSIVE hardLoop(_, _, _, _, _, _, _)
\* hardLoop searching the reply as a maximizing node.
hardLoop_MaximizingReply(b, moves, color, depth, i, bestMove, bestScore) ==
    IF i > Len(moves) THEN bestMove
    ELSE
        LET score == minimax(simulateMove(b, moves[i]), color, depth - 1, TRUE,
                             0 - Infinity, Infinity)
        IN  IF score > bestScore
            THEN hardLoop(b, moves, color, depth, i + 1, moves[i], score)
            ELSE hardLoop(b, moves, color, depth, i + 1, bestMove, bestScore)

hardLoop(b, moves, color, depth, i, bestMove, bestScore) ==
    IF i > Len(moves) THEN bestMove
    ELSE
        LET score == minimax(simulateMove(b, moves[i]), color, depth - 1, FALSE,
                             0 - Infinity, Infinity)
        IN  IF score > bestScore
            THEN hardLoop(b, moves, color, depth, i + 1, moves[i], score)
            ELSE hardLoop(b, moves, color, depth, i + 1, bestMove, bestScore)

getHardMove(b, moves, color, depth) ==
    hardLoop(b, moves, color, depth, 1, moves[1], 0 - Infinity)

\* The moves the strategy switch of getBestMove can choose.
strategyMoves(b, allMoves, color, difficulty) ==
    CASE difficulty.depth = 1 -> getEasyMove(b, allMoves)
      [] difficulty.depth = 2 -> {getMediumMove(b, allMoves, color)}
      [] OTHER -> {getHardMove(b, allMoves, color, difficulty.depth)}

(***************************************************************************)
(* Board storage.  A board is an array of row arrays: heap is the sequence *)
(* of row arrays allocated so far and a board reference maps each row      *)
(* index to the place of its row array in heap.  The operators below give  *)
(* the heap an operation leaves behind; what the operation reads and       *)
(* returns is computed by the operators above on the board its reference   *)
(* shows.  Row arrays allocated by a call that has returned are dropped.   *)
(***************************************************************************)

\* The caller's board b laid out in a fresh heap.
heapOf(b) == [i \in 1..10 |-> b[i - 1]]

callerRef == [r \in Rows |-> r + 1]

\* The board a reference shows.
deref(heap, ref) == [r \in Rows |-> heap[ref[r]]]

\* newBoard[position.row][position.col] = value
store(heap, ref, position, value) ==
    [heap EXCEPT ![ref[position.row]][position.col] = value]

\* The row arrays allocated after the first n are unreachable.
release(heap, n) == SubSeq(heap, 1, n)

\* [...board]: a new outer array holding the same row arrays.
copyRows_SharedRows(heap, ref) ==
    [heap |-> heap, ref |-> ref]

\* board.map(row => [...row]): a new row array for every row.
copyRows(heap, ref) ==
    [heap |-> heap \o [i \in 1..10 |-> heap[ref[i - 1]]],
     ref |-> [r \in Rows |-> Len(heap) + 1 + r]]

\* cloneBoard: a new row array for every row, every piece copied.
cloneBoard(heap, ref) ==
    [heap |-> heap \o [i \in 1..10 |-> heap[ref[i - 1]]],
     ref |-> [r \in Rows |-> Len(heap) + 1 + r]]

\* isValidMove: once the basic rules pass, the move is written to a copy
\* and the copy is tested for check.
isValidMoveCall(heap, ref, piece, from, to) ==
    IF ~isValidBasicMoveOnly(deref(heap, ref), piece, from, to)
    THEN [heap |-> heap, result |-> FALSE]
    ELSE
        LET newBoard == copyRows(heap, ref)
            h1 == store(newBoard.heap, newBoard.ref, to, piece)
            h2 == store(h1, newBoard.ref, from, null)
        IN  [heap |-> release(h2, Len(heap)),
             result |-> ~isInCheck(deref(h2, newBoard.ref), piece.color)]

\* The loops below run over a range lo..hi of a list in order, split in
\* halves; acc is what one pass hands to the next.  Every loop reads acc
\* on entry (a heap always holds the caller's rows, so Len(acc.heap) = 0 is
\* never true), which makes TLC finish the first half before it starts the
\* second.

RECURSIVE getValidMovesLoop(_, _, _, _, _, _)

\* The row and column loops of getValidMoves over the cells lo..hi of
\* CellSeq; acc holds the heap and the validMoves pushed so far.
getValidMovesLoop(acc, ref, piece, from, lo, hi) ==
    IF lo > hi \/ Len(acc.heap) = 0 THEN acc
    ELSE IF lo = hi THEN
        LET r == isValidMoveCall(acc.heap, ref, piece, from, CellSeq[lo])
        IN  [heap |-> r.heap,
             result |-> IF r.result THEN Append(acc.result, CellSeq[lo]) ELSE acc.result]
    ELSE getValidMovesLoop(
             getValidMovesLoop(acc, ref, piece, from, lo, (lo + hi) \div 2),
             ref, piece, from, (lo + hi) \div 2 + 1, hi)

getValidMovesCall(heap, ref, piece, from) ==
    getValidMovesLoop([heap |-> heap, result |-> << >>], ref, piece, from, 1, 90)

\* isInCheck reads the board and calls isValidBasicMoveOnly only.
isInCheckCall(heap, ref, kingColor) ==
    [heap |-> heap, result |-> isInCheck(deref(heap, ref), kingColor)]

RECURSIVE isCheckmateMoves(_, _, _, _, _, _, _, _)

\* The loop of isCheckmate over the valid moves lo..hi of one piece: each is
\* written to a copy; acc.escaped is set by the move that ends the check,
\* at which isCheckmate returns.
isCheckmateMoves(acc, ref, kingColor, piece, from, validMoves, lo, hi) ==
    IF lo > hi \/ acc.escaped THEN acc
    ELSE IF lo = hi THEN
        LET newBoard == copyRows(acc.heap, ref)
            h1 == store(newBoard.heap, newBoard.ref, validMoves[lo], piece)
            h2 == store(h1, newBoard.ref, from, null)
        IN  [heap |-> release(h2, Len(acc.heap)),
             escaped |-> ~isInCheck(deref(h2, newBoard.ref), kingColor)]
    ELSE isCheckmateMoves(
             isCheckmateMoves(acc, ref, kingColor, piece, from, validMoves,
                              lo, (lo + hi) \div 2),
             ref, kingColor, piece, from, validMoves, (lo + hi) \div 2 + 1, hi)

RECURSIVE isCheckmateCells(_, _, _, _, _)

\* The row and column loops of isCheckmate over the cells lo..hi of CellSeq.
isCheckmateCells(acc, ref, kingColor, lo, hi) ==
    IF lo > hi \/ acc.escaped THEN acc
    ELSE IF lo = hi THEN
        LET from == CellSeq[lo]
            piece == deref(acc.heap, ref)[from.row][from.col]
        IN  IF piece = null \/ piece.color # kingColor THEN acc
            ELSE
                LET validMoves == getValidMovesCall(acc.heap, ref, piece, from)
                IN  isCheckmateMoves([heap |-> validMoves.heap, escaped |-> FALSE],
                                     ref, kingColor, piece, from, validMoves.result,
                                     1, Len(validMoves.result))
    ELSE isCheckmateCells(
             isCheckmateCells(acc, ref, kingColor, lo, (lo + hi) \div 2),
             ref, kingColor, (lo + hi) \div 2 + 1, hi)

isCheckmateCall(heap, ref, kingColor) ==
    IF ~isInCheck(deref(heap, ref), kingColor) THEN [heap |-> heap, result |-> FALSE]
    ELSE
        LET r == isCheckmateCells([heap |-> heap, escaped |-> FALSE], ref, kingColor, 1, 90)
        IN  [heap |-> r.heap, result |-> ~r.escaped]

RECURSIVE getAllPossibleMovesCells(_, _, _, _, _)

\* The row and column loops of getAllPossibleMoves over the cells lo..hi of
\* CellSeq; acc holds the heap and the moves pushed so far.
getAllPossibleMovesCells(acc, ref, color, lo, hi) ==
    IF lo > hi \/ Len(acc.heap) = 0 THEN acc
    ELSE IF lo = hi THEN
        LET from == CellSeq[lo]
            b == deref(acc.heap, ref)
            piece == b[from.row][from.col]
        IN  IF piece = null \/ piece.color # color THEN acc
            ELSE
                LET validMoves == getValidMovesCall(acc.heap, ref, piece, from)
                IN  [heap |-> validMoves.heap,
                     result |-> acc.result \o
                        [n \in 1..Len(validMoves.result) |->
                            [from |-> from, to |-> validMoves.result[n], piece |-> piece,
                             capturedPiece |->
                                b[validMoves.result[n].row][validMoves.result[n].col]]]]
    ELSE getAllPossibleMovesCells(
             getAllPossibleMovesCells(acc, ref, color, lo, (lo + hi) \div 2),
             ref, color, (lo + hi) \div 2 + 1, hi)

getAllPossibleMovesCall(heap, ref, color) ==
    getAllPossibleMovesCells([heap |-> heap, result |-> << >>], ref, color, 1, 90)

\* simulateMove: the move is written to a clone, which is returned.
simulateMoveCall(heap, ref, move) ==
    LET newBoard == cloneBoard(heap, ref)
        h1 == store(newBoard.heap, newBoard.ref, move.to,
                    newBoard.heap[newBoard.ref[move.from.row]][move.from.col])
        h2 == store(h1, newBoard.ref, move.from, null)
    IN  [heap |-> h2, ref |-> newBoard.ref]

RECURSIVE minimaxCall(_, _, _, _, _, _, _)
RECURSIVE minimaxLoop(_, _, _, _, _, _, _, _)

\* Either loop of minimax over the moves lo..hi; acc holds the heap, alpha,
\* beta, maxEval resp. minEval as result, and whether the break was taken.
minimaxLoop(acc, ref, moves, color, depth, isMaximizing, lo, hi) ==
    IF lo > hi \/ acc.broken THEN acc
    ELSE IF lo = hi THEN
        LET newBoard == simulateMoveCall(acc.heap, ref, moves[lo])
            eval == minimaxCall(newBoard.heap, newBoard.ref, color, depth - 1,
                                ~isMaximizing, acc.alpha, acc.beta)
            newAlpha == IF isMaximizing THEN Max(acc.alpha, eval.result) ELSE acc.alpha
            newBeta == IF isMaximizing THEN acc.beta ELSE Min(acc.beta, eval.result)
        IN  [heap |-> release(eval.heap, Len(acc.heap)),
             alpha |-> newAlpha,
             beta |-> newBeta,
             result |-> IF isMaximizing THEN Max(acc.result, eval.result)
                        ELSE Min(acc.result, eval.result),
             broken |-> newBeta <= newAlpha]
    ELSE minimaxLoop(
             minimaxLoop(acc, ref, moves, color, depth, isMaximizing, lo, (lo + hi) \div 2),
             ref, moves, color, depth, isMaximizing, (lo + hi) \div 2 + 1, hi)

minimaxCall(heap, ref, color, depth, isMaximizing, alpha, beta) ==
    IF depth = 0 THEN [heap |-> heap, result |-> evaluatePosition(deref(heap, ref), color)]
    ELSE
        LET currentColor == IF isMaximizing THEN color ELSE enemyOf(color)
            mate == isCheckmateCall(heap, ref, currentColor)
        IN  IF mate.result
            THEN [heap |-> mate.heap, result |-> IF isMaximizing THEN -10000 ELSE 10000]
            ELSE
                LET moves == getAllPossibleMovesCall(mate.heap, ref, currentColor)
                IN  IF Len(moves.result) = 0 THEN [heap |-> moves.heap, result |-> 0]
                    ELSE
                        LET r == minimaxLoop(
                                    [heap |-> moves.heap, alpha |-> alpha, beta |-> beta,
                                     result |-> IF isMaximizing THEN 0 - Infinity
                                                ELSE Infinity,
                                     broken |-> FALSE],
                                    ref, moves.result, color, depth, isMaximizing,
                                    1, Len(moves.result))
                        IN  [heap |-> r.heap, result |-> r.result]

RECURSIVE getMediumMoveLoop(_, _, _, _, _, _)

\* The loop of getMediumMove over the moves lo..hi; acc holds the heap,
\* bestMove as result and bestScore.
getMediumMoveLoop(acc, ref, moves, color, lo, hi) ==
    IF lo > hi \/ Len(acc.heap) = 0 THEN acc
    ELSE IF lo = hi THEN
        LET newBoard == simulateMoveCall(acc.heap, ref, moves[lo])
            score == evaluatePosition(deref(newBoard.heap, newBoard.ref), color)
        IN  [heap |-> release(newBoard.heap, Len(acc.heap)),
             result |-> IF score > acc.bestScore THEN moves[lo] ELSE acc.result,
             bestScore |-> IF score > acc.bestScore THEN score ELSE acc.bestScore]
    ELSE getMediumMoveLoop(
             getMediumMoveLoop(acc, ref, moves, color, lo, (lo + hi) \div 2),
             ref, moves, color, (lo + hi) \div 2 + 1, hi)

RECURSIVE getHardMoveLoop(_, _, _, _, _, _, _)

\* The loop of getHardMove over the moves lo..hi; acc as in getMediumMoveLoop.
getHardMoveLoop(acc, ref, moves, color, depth, lo, hi) ==
    IF lo > hi \/ Len(acc.heap) = 0 THEN acc
    ELSE IF lo = hi THEN
        LET newBoard == simulateMoveCall(acc.heap, ref, moves[lo])
            score == minimaxCall(newBoard.heap, newBoard.ref, color, depth - 1, FALSE,
                                 0 - Infinity, Infinity)
        IN  [heap |-> release(score.heap, Len(acc.heap)),
             result |-> IF score.result > acc.bestScore THEN moves[lo] ELSE acc.result,
             bestScore |-> IF score.result > acc.bestScore THEN score.result
                           ELSE acc.bestScore]
    ELSE getHardMoveLoop(
             getHardMoveLoop(acc, ref, moves, color, depth, lo, (lo + hi) \div 2),
             ref, moves, color, depth, (lo + hi) \div 2 + 1, hi)

\* getBestMove before the random substitution: the move list, then the
\* strategy of the difficulty; getEasyMove only reads the list, and its
\* result is one of the moves it can draw.
getBestMoveCall(heap, ref, color, difficulty) ==
    LET allMoves == getAllPossibleMovesCall(heap, ref, color)
        start == [heap |-> allMoves.heap, result |-> allMoves.result[1],
                  bestScore |-> 0 - Infinity]
    IN  IF Len(allMoves.result) = 0 THEN [heap |-> allMoves.heap, result |-> {NoMove}]
        ELSE CASE difficulty.depth = 1 ->
                    [heap |-> allMoves.heap,
                     result |-> getEasyMove(deref(allMoves.heap, ref), allMoves.result)]
               [] difficulty.depth = 2 ->
                    LET r == getMediumMoveLoop(start, ref, allMoves.result, color,
                                               1, Len(allMoves.result))
                    IN  [heap |-> r.heap, result |-> {r.result}]
               [] OTHER ->
                    LET r == getHardMoveLoop(start, ref, allMoves.result, color,
                                             difficulty.depth, 1, Len(allMoves.result))
                    IN  [heap |-> r.heap, result |-> {r.result}]

(***************************************************************************)
(* Positions the rules and the search are exercised on.  Each has one      *)
(* general per colour inside its palace, soldiers on or beyond their home  *)
(* row, and the side that is not to move is not in check.                  *)
(***************************************************************************)

\* The board holding createPiece(type, color, row, col) for every
\* <<row, col, type, color>> of placements.
boardOf(placements) ==
    [r \in Rows |-> [c \in Cols |->
        IF \E x \in placements : x[1] = r /\ x[2] = c
        THEN LET x == CHOOSE y \in placements : y[1] = r /\ y[2] = c
             IN  createPiece(x[3], x[4], r, c)
        ELSE null]]

\* The generals face each other on an open column.
FacingBoard ==
    boardOf({<<9, 4, "king", "red">>, <<0, 4, "king", "black">>,
             <<7, 2, "horse", "red">>, <<4, 0, "soldier", "red">>,
             <<2, 2, "cannon", "black">>, <<0, 6, "elephant", "black">>})

\* The red chariot is pinned on the general's column.
PinBoard ==
    boardOf({<<9, 4, "king", "red">>, <<7, 4, "chariot", "red">>,
             <<2, 4, "chariot", "black">>, <<0, 3, "king", "black">>})

\* Red is in check from the cannon over its own advisor.
CannonCheckBoard ==
    boardOf({<<9, 4, "king", "red">>, <<8, 4, "advisor", "red">>,
             <<9, 2, "elephant", "red">>, <<5, 4, "cannon", "black">>,
             <<5, 2, "soldier", "black">>, <<0, 5, "king", "black">>})

\* Red mates with a chariot on the back row.
ChariotMateBoard ==
    boardOf({<<9, 3, "king", "red">>, <<1, 0, "chariot", "red">>,
             <<5, 8, "chariot", "red">>, <<0, 4, "king", "black">>})

\* Red mates with the horse at (2,3); the horse can also take the soldier
\* at (3,4), which does not mate.
HorseMateBoard ==
    boardOf({<<9, 3, "king", "red">>, <<4, 2, "horse", "red">>,
             <<2, 4, "soldier", "red">>, <<0, 4, "king", "black">>,
             <<0, 3, "advisor", "black">>, <<0, 5, "advisor", "black">>,
             <<3, 4, "soldier", "black">>})

\* HorseMateBoard after the mating move: black has no legal move.
HorseMatedBoard ==
    movedBoard(HorseMateBoard, HorseMateBoard[4][2], Pos(4, 2), Pos(2, 3))

\* Black is not in check and has no legal move.
StalemateBoard ==
    boardOf({<<9, 5, "king", "red">>, <<1, 8, "chariot", "red">>,
             <<5, 4, "chariot", "red">>, <<0, 3, "king", "black">>})

\* StalemateBoard before the chariot closes the general's column.
PreStalemateBoard ==
    boardOf({<<9, 5, "king", "red">>, <<1, 8, "chariot", "red">>,
             <<5, 5, "chariot", "red">>, <<0, 3, "king", "black">>})

\* A horse on (0,1) beside its elephant; the red soldier can step to (1,1).
HorseLegBoard ==
    boardOf({<<9, 4, "king", "red">>, <<1, 0, "soldier", "red">>,
             <<0, 1, "horse", "black">>, <<0, 2, "elephant", "black">>,
             <<0, 3, "king", "black">>})

\* The cannon on (7,1) has two screens before the soldier on (7,7) and none
\* before the horse on (0,1).
CannonScreenBoard ==
    boardOf({<<9, 4, "king", "red">>, <<7, 1, "cannon", "red">>,
             <<7, 3, "advisor", "red">>, <<7, 5, "advisor", "red">>,
             <<7, 7, "soldier", "black">>, <<0, 1, "horse", "black">>,
             <<0, 3, "king", "black">>})

\* The elephant on (9,2) has its eye (8,3) filled by the general; the black
\* elephant stands on the river bank; both soldiers are on their own side.
ElephantEyeBoard ==
    boardOf({<<8, 3, "king", "red">>, <<9, 2, "elephant", "red">>,
             <<6, 8, "soldier", "red">>, <<4, 6, "elephant", "black">>,
             <<3, 0, "soldier", "black">>, <<0, 4, "king", "black">>})

PieceBoards ==
    {[board |-> HorseLegBoard, toMove |-> "red"],
     [board |-> CannonScreenBoard, toMove |-> "red"],
     [board |-> ElephantEyeBoard, toMove |-> "red"]}

RulesBoards ==
    {[board |-> FacingBoard, toMove |-> "red"],
     [board |-> PreStalemateBoard, toMove |-> "red"],
     [board |-> PinBoard, toMove |-> "red"],
     [board |-> CannonCheckBoard, toMove |-> "red"],
     [board |-> ChariotMateBoard, toMove |-> "red"],
     [board |-> HorseMateBoard, toMove |-> "red"]}

SearchBoards ==
    {[board |-> HorseMateBoard, toMove |-> "red"],
     [board |-> ChariotMateBoard, toMove |-> "red"],
     [board |-> HorseMatedBoard, toMove |-> "black"],
     [board |-> StalemateBoard, toMove |-> "black"],
     [board |-> CannonCheckBoard, toMove |-> "red"],
     [board |-> FacingBoard, toMove |-> "red"]}

(***************************************************************************)
(* Rules model: legal moves are played from an opening position.           *)
(***************************************************************************)

\* The game hook at rest, for the models that do not run it.
HookIdle ==
    /\ gameStatus = "playing"
    /\ gameMode = "pvp"
    /\ selectedPosition = NoPosition
    /\ moveHistory = << >>
    /\ capturedPieces = [red |-> << >>, black |-> << >>]
    /\ stateIsInCheck = FALSE
    /\ winner = "null"
    /\ isAIThinking = FALSE
    /\ operationLock = FALSE
    /\ aiPending = << >>
    /\ unlockTimers = 0
    /\ inputs = << >>

AIIdle ==
    /\ aiPc = "idle"
    /\ aiColor = "black"
    /\ aiDifficulty = [depth |-> 1, randomness |-> 0]
    /\ aiRandomFired = FALSE
    /\ aiResult = NoMove
    /\ expiry = NoExpiry

Init ==
    /\ \E s \in RulesBoards : board = s.board /\ currentPlayer = s.toMove
    /\ moveCount = 0
    /\ lastMove = NoMove
    /\ AIIdle
    /\ HookIdle

\* The side to move plays a move isValidMove accepts; the board update and
\* the change of turn are those of handleMove.
MakeMove ==
    /\ moveCount < MaxMoves
    /\ \E from \in Positions, to \in Positions :
        LET piece == board[from.row][from.col]
        IN  /\ piece # null
            /\ piece.color = currentPlayer
            /\ isValidMove(board, piece, from, to)
            /\ board' = movedBoard(board, piece, from, to)
            /\ lastMove' = [from |-> from, to |-> to, piece |-> piece,
                            capturedPiece |-> board[to.row][to.col]]
    /\ currentPlayer' = enemyOf(currentPlayer)
    /\ moveCount' = moveCount + 1
    /\ UNCHANGED aiVars
    /\ UNCHANGED hookVars

Next == MakeMove

Spec == Init /\ [][Next]_vars

(***************************************************************************)
(* Piece-rule model: the same play, from positions that exercise the horse, *)
(* cannon, elephant and soldier rules.                                      *)
(***************************************************************************)

InitPieces ==
    /\ \E s \in PieceBoards : board = s.board /\ currentPlayer = s.toMove
    /\ moveCount = 0
    /\ lastMove = NoMove
    /\ AIIdle
    /\ HookIdle

SpecPieces == InitPieces /\ [][Next]_vars

(***************************************************************************)
(* Search model: AIEngine.getBestMove on a position, for the side to move. *)
(***************************************************************************)

InitAI ==
    /\ \E s \in SearchBoards : board = s.board /\ currentPlayer = s.toMove
    /\ moveCount = 0
    /\ lastMove = NoMove
    /\ AIIdle
    /\ HookIdle

\* new AIEngine(difficulty, color).getBestMove(board) up to its await.
AIStart ==
    /\ aiPc = "idle"
    /\ \E d \in Difficulties : aiDifficulty' = d
    /\ aiColor' = currentPlayer
    /\ aiPc' = "thinking"
    /\ UNCHANGED <<aiRandomFired, aiResult, expiry>>
    /\ UNCHANGED gameVars
    /\ UNCHANGED hookVars

\* getBestMove after the await: no move, the strategy's move, or the random
\* substitution.
AIFinish ==
    /\ aiPc = "thinking"
    /\ LET allMoves == getAllPossibleMoves(board, aiColor)
       IN  IF Len(allMoves) = 0
           THEN /\ aiResult' = NoMove
                /\ aiRandomFired' = FALSE
           ELSE \E bestMove \in strategyMoves(board, allMoves, aiColor, aiDifficulty) :
                    \/ /\ aiResult' = bestMove
                       /\ aiRandomFired' = FALSE
                    \/ /\ aiDifficulty.randomness > 0
                       /\ \E randomIndex \in 1..Len(allMoves) :
                              aiResult' = allMoves[randomIndex]
                       /\ aiRandomFired' = TRUE
    /\ aiPc' = "done"
    /\ UNCHANGED <<aiColor, aiDifficulty, expiry>>
    /\ UNCHANGED gameVars
    /\ UNCHANGED hookVars

NextAI == AIStart \/ AIFinish

SpecAI == InitAI /\ [][NextAI]_vars

(***************************************************************************)
(* FastAIEngine (fastAIEngine.ts): iterative deepening with a time budget. *)
(***************************************************************************)

\* Largest number of entered nodes at which a limit of the clock is drawn.
MaxExpiry == 3

\* FAST_AI_DIFFICULTIES, randomness in percent.
FAST_AI_DIFFICULTIES ==
    {[depth |-> 1, thinkingTime |-> 500, randomness |-> 15],
     [depth |-> 2, thinkingTime |-> 800, randomness |-> 5],
     [depth |-> 2, thinkingTime |-> 1200, randomness |-> 1],
     [depth |-> 3, thinkingTime |-> 1500, randomness |-> 0]}

\* Date.now() - startTime read when nodesSearched is nodes exceeds a limit
\* that the clock passes by the time `at` nodes have been entered; at = -1
\* is a limit not passed during the search.
passed(at, nodes) == at >= 0 /\ nodes >= at

\* at1 is passed no later than at2.
notLater(at1, at2) == at2 = -1 \/ (at1 >= 0 /\ at1 <= at2)

\* The clocks of a search: the limits are 0.7, 0.8 and 1 times thinkingTime.
Expiries ==
    {e \in [at70 : -1..MaxExpiry, at80 : -1..MaxExpiry, at100 : -1..MaxExpiry] :
        notLater(e.at70, e.at80) /\ notLater(e.at80, e.at100)}

fastGetPieceValue(piece) ==
    CASE piece.type = "king" -> 0
      [] piece.type = "advisor" -> 250
      [] piece.type = "elephant" -> 250
      [] piece.type = "horse" -> 500
      [] piece.type = "chariot" -> 1000
      [] piece.type = "cannon" -> 550
      [] piece.type = "soldier" -> 100
      [] OTHER -> 0

isOpenFile(row, col) == FALSE

getPositionBonus(piece, row, col) ==
    CASE piece.type = "soldier" -> (IF piece.color = "red" THEN (9 - row) * 10 ELSE row * 10)
      [] piece.type = "horse" -> Max(0, 3 - Abs(col - 4)) * 10
      [] piece.type = "chariot" -> (IF isOpenFile(row, col) THEN 20 ELSE 0)
      [] OTHER -> 0

RECURSIVE colorScore(_, _, _, _)
\* redScore or blackScore of evaluatePosition: the total values of the
\* pieces of one colour on the cells of cells from the i-th on.
colorScore(b, color, cells, i) ==
    IF i > Len(cells) THEN 0
    ELSE
        LET row == cells[i].row
            col == cells[i].col
            piece == b[row][col]
        IN  (IF piece.color = color
             THEN fastGetPieceValue(piece) + getPositionBonus(piece, row, col)
             ELSE 0)
            + colorScore(b, color, cells, i + 1)

\* FastAIEngine.evaluatePosition for an engine of colour color.
fastEvaluatePosition(b, color) ==
    LET redScore == colorScore(b, "red", occupiedCells(b), 1)
        blackScore == colorScore(b, "black", occupiedCells(b), 1)
    IN  IF color = "red" THEN redScore - blackScore ELSE blackScore - redScore

\* FastAIEngine.makeMove.
makeMove(b, move) ==
    [[b EXCEPT ![move.to.row][move.to.col] = b[move.from.row][move.from.col]]
        EXCEPT ![move.from.row][move.from.col] = null]

\* The key moves.sort compares: the value of the captured piece.
captureScore(move) ==
    IF move.capturedPiece # null THEN fastGetPieceValue(move.capturedPiece) ELSE 0

RECURSIVE sortMoves(_)
\* moves.sort((a, b) => scoreB - scoreA): descending key, moves of equal key
\* in their order in moves.
sortMoves(moves) ==
    IF Len(moves) = 0 THEN << >>
    ELSE
        LET top == CHOOSE s \in {captureScore(moves[k]) : k \in 1..Len(moves)} :
                       \A k \in 1..Len(moves) : captureScore(moves[k]) <= s
        IN  SelectSeq(moves, LAMBDA move : captureScore(move) = top)
            \o sortMoves(SelectSeq(moves, LAMBDA move : captureScore(move) # top))

\* A result of alphaBetaSearch with the value of nodesSearched it leaves:
\* null, or a score with a move (NoMove when the move is undefined).
searchResult(isNull, score, move, nodes) ==
    [isNull |-> isNull, score |-> score, move |-> move, nodes |-> nodes]

RECURSIVE alphaBetaSearch(_, _, _, _, _, _, _, _, _)
RECURSIVE alphaBetaLoop(_, _, _, _, _, _, _, _, _)

\* The loop of alphaBetaSearch over moves from the i-th on; acc holds alpha,
\* beta, bestScore, bestMove, nodesSearched and whether the loop was left
\* by its break.
alphaBetaLoop(acc, b, color, moves, depth, isMaximizing, ply, at100, i) ==
    IF acc.broken \/ i > Len(moves) THEN acc
    ELSE
        LET move == moves[i]
            result == alphaBetaSearch(makeMove(b, move), color, depth - 1, acc.alpha,
                                      acc.beta, ~isMaximizing, ply + 1, acc.nodes, at100)
            improves == IF isMaximizing THEN result.score > acc.bestScore
                        ELSE result.score < acc.bestScore
            alpha == IF isMaximizing THEN Max(acc.alpha, result.score) ELSE acc.alpha
            beta == IF isMaximizing THEN acc.beta ELSE Min(acc.beta, result.score)
            next ==
                IF result.isNull THEN [acc EXCEPT !.nodes = result.nodes]
                ELSE [alpha |-> alpha, beta |-> beta,
                      bestScore |-> IF improves THEN result.score ELSE acc.bestScore,
                      bestMove |-> IF improves THEN move ELSE acc.bestMove,
                      nodes |-> result.nodes, broken |-> beta <= alpha]
        IN  alphaBetaLoop(next, b, color, moves, depth, isMaximizing, ply, at100, i + 1)

\* alphaBetaSearch of an engine of colour color, entered with nodesSearched
\* = nodes; the clock passes thinkingTime by at100 nodes.
alphaBetaSearch(b, color, depth, alpha, beta, isMaximizing, ply, nodes, at100) ==
    LET entered == nodes + 1
        currentPlayer_ == IF isMaximizing THEN color ELSE enemyOf(color)
        terminal == IF isMaximizing THEN -9999 + ply ELSE 9999 - ply
    IN  IF passed(at100, entered) THEN searchResult(TRUE, 0, NoMove, entered)
        ELSE IF depth <= 0
        THEN searchResult(FALSE, fastEvaluatePosition(b, color), NoMove, entered)
        ELSE IF isCheckmate(b, currentPlayer_)
        THEN searchResult(FALSE, terminal, NoMove, entered)
        ELSE
            LET moves == getAllPossibleMoves(b, currentPlayer_)
            IN  IF Len(moves) = 0 THEN searchResult(FALSE, terminal, NoMove, entered)
                ELSE
                    LET start == [alpha |-> alpha, beta |-> beta,
                                  bestScore |-> IF isMaximizing THEN 0 - Infinity
                                                ELSE Infinity,
                                  bestMove |-> NoMove, nodes |-> entered,
                                  broken |-> FALSE]
                        end == alphaBetaLoop(start, b, color, sortMoves(moves), depth,
                                             isMaximizing, ply, at100, 1)
                    IN  searchResult(FALSE, end.bestScore, end.bestMove, end.nodes)

RECURSIVE deepeningLoop(_, _, _, _, _, _, _)
\* The loop of getBestMove from depth on, with bestMove and nodesSearched so
\* far.
deepeningLoop(b, color, clock, maxDepth, depth, bestMove, nodes) ==
    IF depth > maxDepth \/ passed(clock.at70, nodes) THEN bestMove
    ELSE
        LET result == alphaBetaSearch(b, color, depth, 0 - Infinity, Infinity, TRUE, 0,
                                      nodes, clock.at100)
        IN  IF ~result.isNull /\ result.move # NoMove
            THEN IF Abs(result.score) > 2000 \/ passed(clock.at80, result.nodes)
                 THEN result.move
                 ELSE deepeningLoop(b, color, clock, maxDepth, depth + 1, result.move,
                                    result.nodes)
            ELSE deepeningLoop(b, color, clock, maxDepth, depth + 1, bestMove,
                               result.nodes)

\* new FastAIEngine(difficulty, color).getBestMove(b) under the clock.
fastGetBestMove(b, color, difficulty, clock) ==
    LET maxDepth == Min(difficulty.depth + 1, 3)
        allMoves == getAllPossibleMoves(b, color)
    IN  IF Len(allMoves) = 0 THEN NoMove
        ELSE deepeningLoop(b, color, clock, maxDepth, 1, NoMove, 0)

\* The positions FastAIEngine searches, for the side to move.
FastBoards ==
    {[board |-> PinBoard, toMove |-> "red"],
     [board |-> ChariotMateBoard, toMove |-> "red"],
     [board |-> CannonCheckBoard, toMove |-> "red"],
     [board |-> StalemateBoard, toMove |-> "black"]}

InitFast ==
    /\ \E s \in FastBoards : board = s.board /\ currentPlayer = s.toMove
    /\ moveCount = 0
    /\ lastMove = NoMove
    /\ AIIdle
    /\ HookIdle

\* new FastAIEngine(difficulty, color).getBestMove(board) is called; the
\* clock of the call is one of Expiries.
FastStart ==
    /\ aiPc = "idle"
    /\ \E d \in FAST_AI_DIFFICULTIES : aiDifficulty' = d
    /\ \E e \in Expiries : expiry' = e
    /\ aiColor' = currentPlayer
    /\ aiPc' = "thinking"
    /\ UNCHANGED <<aiRandomFired, aiResult>>
    /\ UNCHANGED gameVars
    /\ UNCHANGED hookVars

\* getBestMove returns.
FastFinish ==
    /\ aiPc = "thinking"
    /\ aiResult' = fastGetBestMove(board, aiColor, aiDifficulty, expiry)
    /\ aiPc' = "done"
    /\ UNCHANGED <<aiColor, aiDifficulty, aiRandomFired, expiry>>
    /\ UNCHANGED gameVars
    /\ UNCHANGED hookVars

NextFast == FastStart \/ FastFinish

SpecFast == InitFast /\ [][NextFast]_vars

(***************************************************************************)
(* Game model: the hook useChessGame.  A step is one event handler, timer  *)
(* callback or promise continuation run to completion.                     *)
(***************************************************************************)

\* The game modes played (the search of 'ai-hard' is the one of SpecAI).
GameModes == {"pvp", "ai-easy", "ai-medium"}

\* The cells the players click.
ClickCells == {Pos(7, 1), Pos(0, 1), Pos(2, 1), Pos(9, 1), Pos(6, 4), Pos(5, 4)}

\* The difficulty handleAIMove builds its engine with.
difficultyOfMode(mode) ==
    IF mode = "ai-easy" THEN [depth |-> 1, randomness |-> 30]
    ELSE IF mode = "ai-medium" THEN [depth |-> 2, randomness |-> 10]
    ELSE [depth |-> 3, randomness |-> 5]

\* Date.now() as createPiece reads it when createInitialBoard is called at
\* the time now: it is the last part of every id of the board.
createInitialBoardAt(now) ==
    [r \in Rows |-> [c \in Cols |->
        IF createInitialBoard[r][c] = null THEN null
        ELSE [createInitialBoard[r][c] EXCEPT !.id = @ + 100 * now]]]

\* The times at which the pieces of b were created.
createdAt(b) == {b[p.row][p.col].id \div 100 : p \in {q \in Positions : b[q.row][q.col] # null}}

\* The time of a call of resetGame: later than the creation of every piece,
\* so different from the time of each piece the awaited searches still
\* hold (the state keeps no other piece across resetGame).  Times are named
\* by the least number free.
resetTime ==
    LET held == UNION {createdAt(aiPending[i].board) : i \in 1..Len(aiPending)}
    IN  CHOOSE now \in 0..Cardinality(held) :
            now \notin held /\ \A other \in 0..Cardinality(held) :
                                  other \notin held => now <= other

InitGame ==
    /\ board = createInitialBoardAt(0)
    /\ currentPlayer = "red"
    /\ gameStatus = "playing"
    /\ gameMode \in GameModes
    /\ selectedPosition = NoPosition
    /\ moveHistory = << >>
    /\ capturedPieces = [red |-> << >>, black |-> << >>]
    /\ stateIsInCheck = FALSE
    /\ winner = "null"
    /\ isAIThinking = FALSE
    /\ operationLock = FALSE
    /\ aiPending = << >>
    /\ unlockTimers = 0
    /\ inputs = << >>
    /\ moveCount = 0
    /\ lastMove = NoMove
    /\ AIIdle

\* The fields of gameState that handleMove sets, and the count of the moves
\* made.
moveVars == <<board, currentPlayer, gameStatus, selectedPosition, moveHistory,
              capturedPieces, stateIsInCheck, winner, moveCount>>

\* The fields of gameState the claims read, as one value.
gameState ==
    [board |-> board, currentPlayer |-> currentPlayer, gameStatus |-> gameStatus,
     gameMode |-> gameMode, selectedPosition |-> selectedPosition,
     moveHistory |-> moveHistory, capturedPieces |-> capturedPieces,
     isInCheck |-> stateIsInCheck, winner |-> winner]

\* The updater handleMove passes to setGameState, applied to prev, for a
\* piece and a capturedPiece read from the board of the caller's render.
movedState(prev, piece, capturedPiece, from, to) ==
    LET newBoard == movedBoard(prev.board, piece, from, to)
        alreadyExists ==
            /\ capturedPiece # null
            /\ \E i \in 1..Len(prev.capturedPieces[capturedPiece.color]) :
                  prev.capturedPieces[capturedPiece.color][i].id = capturedPiece.id
        nextPlayer == enemyOf(prev.currentPlayer)
        nextPlayerInCheck == isInCheck(newBoard, nextPlayer)
        isNextPlayerCheckmate == nextPlayerInCheck /\ isCheckmate(newBoard, nextPlayer)
    IN  [prev EXCEPT
            !.board = newBoard,
            !.currentPlayer = nextPlayer,
            !.gameStatus = IF isNextPlayerCheckmate THEN "checkmate" ELSE prev.gameStatus,
            !.selectedPosition = NoPosition,
            !.moveHistory = Append(prev.moveHistory,
                                   [from |-> from, to |-> to, piece |-> piece,
                                    capturedPiece |-> capturedPiece]),
            !.capturedPieces =
                IF capturedPiece # null /\ ~alreadyExists
                THEN [prev.capturedPieces EXCEPT ![capturedPiece.color] =
                                                     Append(@, capturedPiece)]
                ELSE prev.capturedPieces,
            !.isInCheck = nextPlayerInCheck,
            !.winner = IF isNextPlayerCheckmate THEN prev.currentPlayer ELSE prev.winner]

\* setGameState with the fields of next.
setGameState(next) ==
    /\ board' = next.board
    /\ currentPlayer' = next.currentPlayer
    /\ gameStatus' = next.gameStatus
    /\ selectedPosition' = next.selectedPosition
    /\ moveHistory' = next.moveHistory
    /\ capturedPieces' = next.capturedPieces
    /\ stateIsInCheck' = next.isInCheck
    /\ winner' = next.winner

\* handleMove(from, to) of a render whose gameState.board was closureBoard:
\* piece and capturedPiece are read from closureBoard, the update is applied
\* to the state at the time of the call.
handleMove(closureBoard, from, to) ==
    LET piece == closureBoard[from.row][from.col]
        capturedPiece == closureBoard[to.row][to.col]
    IN  IF piece = null THEN UNCHANGED moveVars
        ELSE /\ setGameState(movedState(gameState, piece, capturedPiece, from, to))
             /\ moveCount' = moveCount + 1

\* The early returns of handleSquareClick are not taken.
handleSquareClickRuns ==
    /\ ~operationLock
    /\ gameStatus = "playing"
    /\ ~isAIThinking
    /\ ~(gameMode # "pvp" /\ currentPlayer = "black")

\* The path of handleSquareClick(position) in a handler whose render had the
\* state closure: the handler reads board, currentPlayer and
\* selectedPosition from closure (line 62).
clickPath(closure, position) ==
    LET clickedPiece == closure.board[position.row][position.col]
        ownPiece == clickedPiece # null /\ clickedPiece.color = closure.currentPlayer
        selected == closure.selectedPosition
    IN  IF selected = NoPosition
        THEN (IF ownPiece THEN "select" ELSE "none")
        ELSE IF closure.board[selected.row][selected.col] = null THEN "emptySelected"
        ELSE IF ownPiece THEN "select"
        ELSE IF isValidMove(closure.board, closure.board[selected.row][selected.col],
                            selected, position)
        THEN "move"
        ELSE "deselect"

\* The updaters handleSquareClick(position) passes to setGameState, applied
\* to prev; handleMove reads piece and capturedPiece from the same render.
clickedState(closure, prev, position) ==
    LET path == clickPath(closure, position)
        selected == closure.selectedPosition
    IN  CASE path = "none" -> prev
          [] path = "select" -> [prev EXCEPT !.selectedPosition = position]
          [] path = "move" ->
                movedState(prev, closure.board[selected.row][selected.col],
                           closure.board[position.row][position.col], selected, position)
          [] OTHER -> [prev EXCEPT !.selectedPosition = NoPosition]

\* handleSquareClick(position) past its early returns.  The lock taken at
\* the start is released at the end of the same task, except on the return
\* taken when the selected cell holds no piece.
handleSquareClick(position) ==
    /\ setGameState(clickedState(gameState, gameState, position))
    /\ operationLock' = (clickPath(gameState, position) = "emptySelected")
    /\ moveCount' = IF clickPath(gameState, position) = "move" THEN moveCount + 1
                    ELSE moveCount
    /\ UNCHANGED <<gameMode, isAIThinking, aiPending, unlockTimers>>
    /\ UNCHANGED lastMove
    /\ UNCHANGED aiVars

\* A player clicks a cell.
HandleSquareClick ==
    /\ handleSquareClickRuns
    /\ \E position \in ClickCells : handleSquareClick(position)
    /\ moveCount' <= MaxGameMoves
    /\ UNCHANGED inputs

\* The conditions under which the AI effect sets its timer and the timer
\* calls handleAIMove, which then passes its own early return.
handleAIMoveRuns ==
    /\ currentPlayer = "black"
    /\ gameMode # "pvp"
    /\ gameStatus = "playing"
    /\ ~isAIThinking
    /\ ~operationLock

\* handleAIMove up to its await: the search is started on the board of the
\* render that set the timer.
handleAIMove ==
    /\ isAIThinking' = TRUE
    /\ aiPending' = Append(aiPending, [board |-> board, gameMode |-> gameMode])
    /\ UNCHANGED moveVars
    /\ UNCHANGED <<gameMode, operationLock, unlockTimers>>
    /\ UNCHANGED lastMove
    /\ UNCHANGED aiVars

\* The timer of the AI effect fires.
HandleAIMove ==
    /\ handleAIMoveRuns
    /\ Len(aiPending) < MaxPending
    /\ handleAIMove
    /\ UNCHANGED inputs

\* The first MaxRandomIndex elements of a list a random index is drawn for.
drawn(list) == {list[k] : k \in 1..Min(Len(list), MaxRandomIndex)}

\* The moves new AIEngine(difficulty, 'black').getBestMove(b) can resolve to.
engineMoves(b, difficulty) ==
    LET allMoves == getAllPossibleMoves(b, "black")
        captureMoves == SelectSeq(allMoves, LAMBDA move : b[move.to.row][move.to.col] # null)
        bestMove ==
            CASE difficulty.depth = 1 ->
                    IF Len(captureMoves) > 0 THEN drawn(captureMoves) ELSE drawn(allMoves)
              [] difficulty.depth = 2 -> {getMediumMove(b, allMoves, "black")}
              [] OTHER -> {getHardMove(b, allMoves, "black", difficulty.depth)}
    IN  IF Len(allMoves) = 0 THEN {NoMove}
        ELSE bestMove \cup (IF difficulty.randomness > 0 THEN drawn(allMoves) ELSE {})

\* list without its i-th element.
removeAt(list, i) == SubSeq(list, 1, i - 1) \o SubSeq(list, i + 1, Len(list))

\* The rest of handleAIMove for the i-th awaited search: it resolves, its
\* move, if any, is passed to makeMove, and isAIThinking is cleared.
handleAIMoveReturn(i) ==
    /\ \E aiMove \in engineMoves(aiPending[i].board,
                                 difficultyOfMode(aiPending[i].gameMode)) :
          IF aiMove = NoMove THEN UNCHANGED moveVars
          ELSE handleMove(aiPending[i].board, aiMove.from, aiMove.to)
    /\ aiPending' = removeAt(aiPending, i)
    /\ isAIThinking' = FALSE
    /\ UNCHANGED <<gameMode, operationLock, unlockTimers>>
    /\ UNCHANGED lastMove
    /\ UNCHANGED aiVars

\* An awaited search resolves.
HandleAIMoveReturn ==
    /\ \E i \in 1..Len(aiPending) : handleAIMoveReturn(i)
    /\ moveCount' <= MaxGameMoves
    /\ UNCHANGED inputs

\* The i-th awaited search resolves and the user clicks a cell before the
\* component is rendered again.  The state updates made after the await
\* (makeMove, setIsAIThinking) are applied at the next render, so the click
\* runs the handleSquareClick of the render before them: its early returns
\* and its reads see that render's state, and its updaters are applied
\* after the updater of the AI's move.
handleAIMoveReturnBeforeRender(i, position) ==
    /\ \E aiMove \in engineMoves(aiPending[i].board,
                                 difficultyOfMode(aiPending[i].gameMode)) :
          LET closureBoard == aiPending[i].board
              piece == closureBoard[aiMove.from.row][aiMove.from.col]
              moves == aiMove # NoMove /\ piece # null
              resolved == IF moves
                          THEN movedState(gameState, piece,
                                          closureBoard[aiMove.to.row][aiMove.to.col],
                                          aiMove.from, aiMove.to)
                          ELSE gameState
              path == IF handleSquareClickRuns THEN clickPath(gameState, position)
                      ELSE "none"
          IN  /\ setGameState(IF handleSquareClickRuns
                              THEN clickedState(gameState, resolved, position)
                              ELSE resolved)
              /\ operationLock' = IF handleSquareClickRuns THEN path = "emptySelected"
                                  ELSE operationLock
              /\ moveCount' = moveCount + (IF moves THEN 1 ELSE 0)
                                        + (IF path = "move" THEN 1 ELSE 0)
    /\ aiPending' = removeAt(aiPending, i)
    /\ isAIThinking' = FALSE
    /\ UNCHANGED <<gameMode, unlockTimers>>
    /\ UNCHANGED lastMove
    /\ UNCHANGED aiVars

resetGame ==
    /\ isAIThinking' = FALSE
    /\ board' = createInitialBoardAt(resetTime)
    /\ currentPlayer' = "red"
    /\ gameStatus' = "playing"
    /\ selectedPosition' = NoPosition
    /\ moveHistory' = << >>
    /\ capturedPieces' = [red |-> << >>, black |-> << >>]
    /\ stateIsInCheck' = FALSE
    /\ winner' = "null"
    /\ UNCHANGED <<gameMode, operationLock, aiPending, unlockTimers>>
    /\ UNCHANGED <<moveCount, lastMove>>
    /\ UNCHANGED aiVars

ResetGame == resetGame /\ UNCHANGED inputs

\* One pass of the loop of undoMove over [board, moveHistory, capturedPieces].
undoLast(st) ==
    IF Len(st.moveHistory) = 0 THEN st
    ELSE
        LET last == st.moveHistory[Len(st.moveHistory)]
            capturedArray == st.capturedPieces[last.capturedPiece.color]
            found == {i \in 1..Len(capturedArray) : capturedArray[i].id = last.capturedPiece.id}
            index == IF found = {} THEN 0 ELSE CHOOSE i \in found : \A j \in found : i <= j
        IN  [board |-> [[st.board EXCEPT ![last.from.row][last.from.col] = last.piece]
                            EXCEPT ![last.to.row][last.to.col] = last.capturedPiece],
             moveHistory |-> SubSeq(st.moveHistory, 1, Len(st.moveHistory) - 1),
             capturedPieces |->
                IF last.capturedPiece # null /\ index > 0
                THEN [st.capturedPieces EXCEPT ![last.capturedPiece.color] =
                                                   removeAt(@, index)]
                ELSE st.capturedPieces]

\* movesToUndo of undoMove.
movesToUndo(prev) ==
    IF prev.gameMode # "pvp" /\ prev.currentPlayer = "black" /\ Len(prev.moveHistory) >= 2
    THEN 2 ELSE 1

\* undoneState leaving isInCheck as it was.
undoneState_CheckFlagKept(prev) ==
    LET isAIGame == prev.gameMode # "pvp"
        st0 == [board |-> prev.board, moveHistory |-> prev.moveHistory,
                capturedPieces |-> prev.capturedPieces]
        st == IF movesToUndo(prev) = 2 THEN undoLast(undoLast(st0)) ELSE undoLast(st0)
        player == IF isAIGame THEN "red" ELSE enemyOf(prev.currentPlayer)
    IN  [prev EXCEPT
            !.board = st.board,
            !.currentPlayer = player,
            !.gameStatus = "playing",
            !.selectedPosition = NoPosition,
            !.moveHistory = st.moveHistory,
            !.capturedPieces = st.capturedPieces,
            !.winner = "null"]

\* The updater undoMove passes to setGameState, applied to a prev with a
\* move in its history.
undoneState(prev) ==
    LET isAIGame == prev.gameMode # "pvp"
        st0 == [board |-> prev.board, moveHistory |-> prev.moveHistory,
                capturedPieces |-> prev.capturedPieces]
        st == IF movesToUndo(prev) = 2 THEN undoLast(undoLast(st0)) ELSE undoLast(st0)
        player == IF isAIGame THEN "red" ELSE enemyOf(prev.currentPlayer)
    IN  [prev EXCEPT
            !.board = st.board,
            !.currentPlayer = player,
            !.gameStatus = "playing",
            !.selectedPosition = NoPosition,
            !.moveHistory = st.moveHistory,
            !.capturedPieces = st.capturedPieces,
            !.isInCheck = isInCheck(st.board, player),
            !.winner = "null"]

\* The early return of undoMove is not taken.
undoMoveRuns == ~isAIThinking /\ ~operationLock

\* undoMove past its early return: the lock is taken and a timer is set to
\* release it; with an empty history the lock is released at once.
undoMove ==
    /\ isAIThinking' = FALSE
    /\ unlockTimers' = unlockTimers + 1
    /\ IF Len(moveHistory) = 0
       THEN /\ operationLock' = FALSE
            /\ UNCHANGED moveVars
       ELSE /\ operationLock' = TRUE
            /\ setGameState(undoneState(gameState))
            /\ UNCHANGED moveCount
    /\ UNCHANGED <<gameMode, aiPending>>
    /\ UNCHANGED lastMove
    /\ UNCHANGED aiVars

UndoMove ==
    /\ undoMoveRuns
    /\ unlockTimers < MaxPending
    /\ undoMove
    /\ UNCHANGED inputs

\* The callback of the timer of undoMove.
undoRelease ==
    /\ unlockTimers' = unlockTimers - 1
    /\ operationLock' = FALSE
    /\ UNCHANGED moveVars
    /\ UNCHANGED <<gameMode, isAIThinking, aiPending>>
    /\ UNCHANGED lastMove
    /\ UNCHANGED aiVars

\* The timer of undoMove fires.
UndoRelease ==
    /\ unlockTimers > 0
    /\ undoRelease
    /\ UNCHANGED inputs

setGameMode(mode) ==
    /\ gameMode' = mode
    /\ UNCHANGED moveVars
    /\ UNCHANGED <<isAIThinking, operationLock, aiPending, unlockTimers>>
    /\ UNCHANGED lastMove
    /\ UNCHANGED aiVars

SetGameMode ==
    /\ \E mode \in GameModes : mode # gameMode /\ setGameMode(mode)
    /\ UNCHANGED inputs

NextGame ==
    \/ HandleSquareClick
    \/ HandleAIMove
    \/ HandleAIMoveReturn
    \/ ResetGame
    \/ UndoMove
    \/ UndoRelease
    \/ SetGameMode

SpecGame == InitGame /\ [][NextGame]_vars

(***************************************************************************)
(* Recorded sessions: the events of one use of the hook, in the order in   *)
(* which they are delivered.  The user's events are a click on a cell,     *)
(* undoMove, resetGame and setGameMode; the others are the timer of the AI *)
(* effect, the resolution of an awaited search and the timer of undoMove.  *)
(***************************************************************************)

Event(kind, position, mode, index) ==
    [kind |-> kind, position |-> position, mode |-> mode, index |-> index]

Click(row, col) == Event("click", Pos(row, col), "null", 0)

Undo == Event("undoMove", NoPosition, "null", 0)

Reset == Event("resetGame", NoPosition, "null", 0)

Mode(mode) == Event("setGameMode", NoPosition, mode, 0)

AITimer == Event("aiTimer", NoPosition, "null", 0)

AIReturn(i) == Event("aiReturn", NoPosition, "null", i)

UnlockTimer == Event("unlockTimer", NoPosition, "null", 0)

\* The i-th search resolves and the cell is clicked before the next render.
AIReturnThenClick(i, row, col) == Event("aiReturnThenClick", Pos(row, col), "null", i)

\* The two clicks that select the piece on (r1, c1) and move it to (r2, c2).
ClickMove(r1, c1, r2, c2) == <<Click(r1, c1), Click(r2, c2)>>

\* The AI effect's timer fires and the search it starts resolves.
AIReply == <<AITimer, AIReturn(1)>>

\* undoMove and the timer that releases its lock.
UndoAndRelease == <<Undo, UnlockTimer>>

\* A game between two players that ends with black to move, not in check
\* and without a legal move.
StalemateGame ==
        ClickMove(6, 4, 5, 4) \o ClickMove(3, 4, 4, 4) \o
        ClickMove(5, 4, 4, 4) \o ClickMove(3, 0, 4, 0) \o
        ClickMove(7, 1, 3, 1) \o ClickMove(0, 0, 2, 0) \o
        ClickMove(3, 1, 0, 1) \o ClickMove(0, 5, 1, 4) \o
        ClickMove(7, 7, 4, 7) \o ClickMove(2, 0, 3, 0) \o
        ClickMove(9, 0, 7, 0) \o ClickMove(2, 1, 2, 4) \o
        ClickMove(4, 4, 4, 5) \o ClickMove(2, 4, 7, 4) \o
        ClickMove(7, 0, 7, 4) \o ClickMove(2, 7, 2, 4) \o
        ClickMove(4, 5, 4, 4) \o ClickMove(2, 4, 2, 1) \o
        ClickMove(7, 4, 7, 1) \o ClickMove(4, 0, 5, 0) \o
        ClickMove(7, 1, 2, 1) \o ClickMove(3, 8, 4, 8) \o
        ClickMove(9, 1, 7, 2) \o ClickMove(0, 7, 2, 6) \o
        ClickMove(2, 1, 2, 6) \o ClickMove(3, 0, 2, 0) \o
        ClickMove(2, 6, 2, 0) \o ClickMove(0, 6, 2, 4) \o
        ClickMove(2, 0, 2, 4) \o ClickMove(0, 8, 0, 5) \o
        ClickMove(6, 0, 5, 0) \o ClickMove(3, 2, 4, 2) \o
        ClickMove(4, 7, 4, 2) \o ClickMove(0, 5, 7, 5) \o
        ClickMove(4, 2, 4, 8) \o ClickMove(7, 5, 3, 5) \o
        ClickMove(5, 0, 4, 0) \o ClickMove(0, 4, 0, 5) \o
        ClickMove(2, 4, 1, 4) \o ClickMove(3, 5, 4, 5) \o
        ClickMove(4, 4, 4, 5) \o ClickMove(3, 6, 4, 6) \o
        ClickMove(4, 5, 4, 6)

\* The double-cannon mate of black in seven plies.
CheckmateGame ==
        ClickMove(7, 1, 7, 4) \o ClickMove(0, 0, 1, 0) \o
        ClickMove(7, 4, 3, 4) \o ClickMove(1, 0, 0, 0) \o
        ClickMove(7, 7, 4, 7) \o ClickMove(0, 0, 1, 0) \o
        ClickMove(4, 7, 4, 4)

\* The recorded sessions: the mode the game starts in and the events.
Sessions ==
    {[gameMode |-> "pvp", events |-> StalemateGame],
     \* A won game, then undoMove and resetGame.
     [gameMode |-> "pvp", events |-> CheckmateGame \o UndoAndRelease \o <<Reset>>],
     \* Against the AI: after each reply of the AI the player takes it back
     \* and moves again, the cannon going (7,1) -> (4,1) -> (4,4) -> (0,4).
     [gameMode |-> "ai-easy",
      events |-> ClickMove(7, 1, 4, 1) \o AIReply \o UndoAndRelease \o
                 ClickMove(4, 1, 4, 4) \o AIReply \o UndoAndRelease \o
                 ClickMove(4, 4, 0, 4)],
     \* Against the AI: resetGame while the search is awaited, then a game
     \* between two players is won before the search resolves.
     [gameMode |-> "ai-easy",
      events |-> ClickMove(7, 1, 7, 4) \o <<AITimer, Reset, Mode("pvp")>> \o
                 CheckmateGame \o <<AIReturn(1)>>],
     \* Two players: red gives check with the cannon, black interposes the
     \* advisor and takes that back; the AI then plays black out of check.
     [gameMode |-> "pvp",
      events |-> ClickMove(7, 1, 4, 1) \o ClickMove(0, 0, 1, 0) \o
                 ClickMove(4, 1, 4, 4) \o ClickMove(0, 3, 1, 4) \o UndoAndRelease \o
                 <<Mode("ai-easy")>> \o AIReply \o <<Reset>>],
     \* Against the AI: resetGame while a search is awaited, and a second
     \* search is started in the new game; the first resolves, the players
     \* go on as two and red takes the cannon of (2,1) before the second
     \* search resolves.
     [gameMode |-> "ai-easy",
      events |-> ClickMove(6, 8, 5, 8) \o <<AITimer, Reset>> \o
                 ClickMove(6, 8, 5, 8) \o <<AITimer, AIReturn(1), Mode("pvp")>> \o
                 ClickMove(6, 4, 5, 4) \o ClickMove(2, 7, 5, 7) \o
                 ClickMove(5, 4, 4, 4) \o ClickMove(5, 7, 5, 1) \o
                 ClickMove(7, 1, 2, 1) \o <<AIReturn(1)>>],
     \* Against the AI: resetGame while the search is awaited, the players
     \* go on as two; black clicks the chariot of (0,0) as the search
     \* resolves, then red clicks, asks for an undo and starts a new game.
     [gameMode |-> "ai-easy",
      events |-> ClickMove(6, 8, 5, 8) \o <<AITimer, Reset, Mode("pvp")>> \o
                 ClickMove(6, 8, 5, 8) \o
                 <<AIReturnThenClick(1, 0, 0), Click(9, 0)>> \o UndoAndRelease \o
                 <<Click(9, 0), Reset, Click(9, 0)>>]}

\* Every variable but inputs.
sessionVars == <<board, currentPlayer, moveCount, lastMove, aiVars,
                 gameStatus, gameMode, selectedPosition, moveHistory, capturedPieces,
                 stateIsInCheck, winner, isAIThinking, operationLock,
                 aiPending, unlockTimers>>

InitSession ==
    /\ \E session \in Sessions :
          /\ gameMode = session.gameMode
          /\ inputs = session.events
    /\ board = createInitialBoardAt(0)
    /\ currentPlayer = "red"
    /\ gameStatus = "playing"
    /\ selectedPosition = NoPosition
    /\ moveHistory = << >>
    /\ capturedPieces = [red |-> << >>, black |-> << >>]
    /\ stateIsInCheck = FALSE
    /\ winner = "null"
    /\ isAIThinking = FALSE
    /\ operationLock = FALSE
    /\ aiPending = << >>
    /\ unlockTimers = 0
    /\ moveCount = 0
    /\ lastMove = NoMove
    /\ AIIdle

\* The next event of the session is of the given kind and is consumed.
delivered(kind) ==
    /\ Len(inputs) > 0
    /\ Head(inputs).kind = kind
    /\ inputs' = Tail(inputs)

\* The user clicks a cell; the click is dropped by the early returns of
\* handleSquareClick.
ClickEvent ==
    /\ delivered("click")
    /\ IF handleSquareClickRuns THEN handleSquareClick(Head(inputs).position)
       ELSE UNCHANGED sessionVars

UndoEvent ==
    /\ delivered("undoMove")
    /\ IF undoMoveRuns THEN undoMove ELSE UNCHANGED sessionVars

ResetEvent ==
    /\ delivered("resetGame")
    /\ resetGame

ModeEvent ==
    /\ delivered("setGameMode")
    /\ setGameMode(Head(inputs).mode)

\* The timer of the AI effect is pending only under handleAIMoveRuns.
AITimerEvent ==
    /\ delivered("aiTimer")
    /\ IF handleAIMoveRuns THEN handleAIMove ELSE UNCHANGED sessionVars

AIReturnEvent ==
    /\ delivered("aiReturn")
    /\ IF Head(inputs).index \in 1..Len(aiPending)
       THEN handleAIMoveReturn(Head(inputs).index)
       ELSE UNCHANGED sessionVars

UnlockTimerEvent ==
    /\ delivered("unlockTimer")
    /\ IF unlockTimers > 0 THEN undoRelease ELSE UNCHANGED sessionVars

AIReturnThenClickEvent ==
    /\ delivered("aiReturnThenClick")
    /\ IF Head(inputs).index \in 1..Len(aiPending)
       THEN handleAIMoveReturnBeforeRender(Head(inputs).index, Head(inputs).position)
       ELSE UNCHANGED sessionVars

NextSession ==
    \/ ClickEvent
    \/ UndoEvent
    \/ ResetEvent
    \/ ModeEvent
    \/ AITimerEvent
    \/ AIReturnEvent
    \/ UnlockTimerEvent
    \/ AIReturnThenClickEvent

SpecSession == InitSession /\ [][NextSession]_vars

\* Every recorded event is delivered: the timers fire, the awaited searches
\* resolve and the user goes on.
FairSession == SpecSession /\ WF_vars(NextSession)

(***************************************************************************)
(* Properties                                                              *)
(***************************************************************************)

Occupied(b) == {p \in Positions : b[p.row][p.col] # null}

PieceAt(b, p) == b[p.row][p.col]

OneKingEach(b) ==
    \A c \in PieceColors :
        Cardinality({p \in Occupied(b) : PieceAt(b, p).type = "king"
                                         /\ PieceAt(b, p).color = c}) = 1

\* C1: every destination getValidMoves returns for a piece on the board
\* leads to a board on which the mover's own general is not in check.
C1_LegalMoveKeepsOwnGeneralSafe ==
    \A f \in Occupied(board) :
        \A t \in Range(getValidMoves(board, PieceAt(board, f), f)) :
            ~isInCheck(movedBoard(board, PieceAt(board, f), f, t), PieceAt(board, f).color)

\* A piece has a destination that passes its movement rule but is filtered
\* because it would expose its own general, and it still has a legal move.
C1_Witness ==
    \E f \in Occupied(board) :
        /\ Len(getValidMoves(board, PieceAt(board, f), f)) > 0
        /\ \E t \in Positions :
            /\ isValidBasicMoveOnly(board, PieceAt(board, f), f, t)
            /\ isInCheck(movedBoard(board, PieceAt(board, f), f, t), PieceAt(board, f).color)

\* C2: with colour c's general at g, isInCheck(board, c) is true exactly when
\* some piece of the other colour passes the basic legality test for a move
\* onto g; for red and for black.
C2_CheckIffBasicAttack ==
    \A c \in PieceColors : \A g \in Occupied(board) :
        (PieceAt(board, g).type = "king" /\ PieceAt(board, g).color = c) =>
            (isInCheck(board, c) <=>
                \E f \in Occupied(board) :
                    /\ PieceAt(board, f).color = enemyOf(c)
                    /\ isValidBasicMoveOnly(board, PieceAt(board, f), f, g))

\* A move has been played that leaves the side to move in check.
C2_Witness ==
    /\ moveCount > 0
    /\ isInCheck(board, currentPlayer)
    /\ ~isInCheck(board, enemyOf(currentPlayer))

\* C3: isCheckmate(board, c) is true exactly when c is in check and
\* getValidMoves is empty for every piece of colour c.
C3_CheckmateIffCheckAndNoMoves ==
    \A c \in PieceColors :
        isCheckmate(board, c) <=>
            /\ isInCheck(board, c)
            /\ \A f \in Occupied(board) :
                  PieceAt(board, f).color = c =>
                      Len(getValidMoves(board, PieceAt(board, f), f)) = 0

\* A move has been played that checkmates the side to move.
C3_Witness ==
    /\ moveCount > 0
    /\ isCheckmate(board, currentPlayer)

\* C4: for an in-bounds destination, isValidMove is true exactly when
\* isValidBasicMoveOnly is true and the mover's general is not in check on
\* the board after the move.
C4_FullIsBasicPlusSelfCheck ==
    \A f \in Occupied(board) : \A t \in Positions :
        isValidMove(board, PieceAt(board, f), f, t) <=>
            /\ isValidBasicMoveOnly(board, PieceAt(board, f), f, t)
            /\ ~isInCheck(movedBoard(board, PieceAt(board, f), f, t), PieceAt(board, f).color)

\* The side to move is in check; one of its basic-legal moves escapes and
\* another does not.
C4_Witness ==
    /\ isInCheck(board, currentPlayer)
    /\ \E f \in Occupied(board) : \E t1 \in Positions, t2 \in Positions :
        /\ PieceAt(board, f).color = currentPlayer
        /\ isValidMove(board, PieceAt(board, f), f, t1)
        /\ isValidBasicMoveOnly(board, PieceAt(board, f), f, t2)
        /\ ~isValidMove(board, PieceAt(board, f), f, t2)

\* The cells strictly between two cells of one column are all empty.
ColumnClearBetween(b, f, t) ==
    \A r \in Rows :
        (r > Min(f.row, t.row) /\ r < Max(f.row, t.row)) => b[r][f.col] = null

\* C5: a general's move along its column onto the opposing general passes
\* the general's movement rule whenever every cell strictly between them is
\* empty.
C5_FlyingGeneralsPasses ==
    \A f \in Occupied(board) : \A t \in Occupied(board) :
        (/\ PieceAt(board, f).type = "king"
         /\ PieceAt(board, t).type = "king"
         /\ PieceAt(board, t).color # PieceAt(board, f).color
         /\ f.col = t.col
         /\ ColumnClearBetween(board, f, t))
        => isValidKingMove(board, PieceAt(board, f), f, t)

\* C6 as stated: isValidMove is false whenever the destination holds the
\* general of the colour opposite to the moving piece.
C6_Original ==
    \A f \in Occupied(board) : \A t \in Occupied(board) :
        (/\ PieceAt(board, t).type = "king"
         /\ PieceAt(board, t).color # PieceAt(board, f).color)
        => ~isValidMove(board, PieceAt(board, f), f, t)

\* C6 amended: isValidMove accepts a move onto the opposing general only on
\* a board where that general's colour is in check; the side to move, whose
\* opponent has just played a legal move, never has such a move.
C6_Amended ==
    \A f \in Occupied(board) : \A t \in Occupied(board) :
        (/\ PieceAt(board, t).type = "king"
         /\ PieceAt(board, t).color # PieceAt(board, f).color
         /\ isValidMove(board, PieceAt(board, f), f, t))
        => /\ isInCheck(board, PieceAt(board, t).color)
           /\ PieceAt(board, f).color # currentPlayer

\* A move has been played after which the mover's piece could take the
\* general it has put in check.
C6_Witness ==
    /\ moveCount > 0
    /\ \E f \in Occupied(board) : \E t \in Occupied(board) :
        /\ PieceAt(board, t).type = "king"
        /\ PieceAt(board, t).color = currentPlayer
        /\ PieceAt(board, f).color = enemyOf(currentPlayer)
        /\ isValidMove(board, PieceAt(board, f), f, t)

\* C7: a move returned by getBestMove is a move of a piece of the searching
\* colour that stands at the move's origin, and isValidMove accepts it.
C7_BestMoveIsLegal ==
    (aiPc = "done" /\ aiResult # NoMove) =>
        /\ aiResult.piece.color = aiColor
        /\ PieceAt(board, aiResult.from) = aiResult.piece
        /\ isValidMove(board, aiResult.piece, aiResult.from, aiResult.to)

\* The random substitution replaced the move of the depth-2 strategy by a
\* different one.
C7_Witness ==
    /\ aiPc = "done"
    /\ aiRandomFired
    /\ aiDifficulty.depth = 2
    /\ aiResult # NoMove
    /\ aiResult # getMediumMove(board, getAllPossibleMoves(board, aiColor), aiColor)

\* The searching colour has a legal move from some piece.
HasLegalMove(b, color) ==
    \E f \in Occupied(b) :
        /\ PieceAt(b, f).color = color
        /\ \E t \in Positions : isValidMove(b, PieceAt(b, f), f, t)

\* C8: getBestMove returns no move exactly when the searching colour has no
\* legal move, for every difficulty.
C8_NullIffNoLegalMove ==
    aiPc = "done" => (aiResult = NoMove <=> ~HasLegalMove(board, aiColor))

\* getBestMove returned no move to a side that is not in check (stalemate).
C8_Witness ==
    /\ aiPc = "done"
    /\ aiResult = NoMove
    /\ ~isInCheck(board, aiColor)

\* The legal moves of color after which the opponent is checkmated.
MatingMoves(b, color) ==
    {m \in Range(getAllPossibleMoves(b, color)) :
        isCheckmate(simulateMove(b, m), enemyOf(color))}

C10_EvaluationAntisymmetric ==
    evaluatePosition(board, "red") = 0 - evaluatePosition(board, "black")

\* A side is in check, soldiers carry positional bonuses and the score is
\* not zero.
C10_Witness ==
    /\ isInCheck(board, currentPlayer)
    /\ \E f \in Occupied(board) : PieceAt(board, f).type = "soldier"
    /\ evaluatePosition(board, "red") # 0

\* The pieces of one type on the board.
CellsOfType(b, type) == {p \in Occupied(b) : PieceAt(b, p).type = type}

\* C11 as stated: a horse at (0,1) with a piece at (0,2) cannot reach (2,2),
\* by isValidMove and by getValidMoves.
C11_Original ==
    (PieceAt(board, Pos(0, 1)).type = "horse" /\ board[0][2] # null) =>
        /\ ~isValidMove(board, board[0][1], Pos(0, 1), Pos(2, 2))
        /\ Pos(2, 2) \notin Range(getValidMoves(board, board[0][1], Pos(0, 1)))

\* C11 amended: a horse at (0,1) with a piece at (1,1) cannot reach (2,2);
\* a piece at (0,2) is the leg of the move to (1,3) and excludes (1,3).
C11_Amended ==
    PieceAt(board, Pos(0, 1)).type = "horse" =>
        /\ board[1][1] # null =>
            /\ ~isValidMove(board, board[0][1], Pos(0, 1), Pos(2, 2))
            /\ Pos(2, 2) \notin Range(getValidMoves(board, board[0][1], Pos(0, 1)))
        /\ board[0][2] # null =>
            /\ ~isValidMove(board, board[0][1], Pos(0, 1), Pos(1, 3))
            /\ Pos(1, 3) \notin Range(getValidMoves(board, board[0][1], Pos(0, 1)))

\* A piece has moved to (1,1) beside the horse at (0,1); (2,2) is empty.
C11_Witness ==
    /\ moveCount > 0
    /\ PieceAt(board, Pos(0, 1)).type = "horse"
    /\ board[1][1] # null
    /\ board[2][2] = null

\* The cell next to f on the way of the two-step of the horse move f -> t.
HorseLeg(f, t) ==
    IF Abs(t.row - f.row) = 2
    THEN Pos(f.row + (IF t.row > f.row THEN 1 ELSE -1), f.col)
    ELSE Pos(f.row, f.col + (IF t.col > f.col THEN 1 ELSE -1))

HorseOffset(f, t) ==
    \/ Abs(t.row - f.row) = 2 /\ Abs(t.col - f.col) = 1
    \/ Abs(t.row - f.row) = 1 /\ Abs(t.col - f.col) = 2

\* The board with cell x emptied if it is occupied and filled if it is empty.
Toggled(b, x) ==
    [b EXCEPT ![x.row][x.col] =
        IF b[x.row][x.col] = null THEN createPiece("soldier", "red", x.row, x.col) ELSE null]

\* C12: the horse rule passes exactly for an L offset whose leg (the cell
\* next to the origin along the two-step) is empty, and changing the
\* occupancy of any other cell within two steps of the origin, the
\* destination and the neighbour along the one-step included, does not
\* change the result.
C12_HorseRule ==
    \A f \in CellsOfType(board, "horse") : \A t \in Positions :
        /\ isValidHorseMove(board, PieceAt(board, f), f, t) <=>
              (HorseOffset(f, t) /\ PieceAt(board, HorseLeg(f, t)) = null)
        /\ HorseOffset(f, t) =>
              \A x \in Positions :
                  (/\ Abs(x.row - f.row) <= 2
                   /\ Abs(x.col - f.col) <= 2
                   /\ x # HorseLeg(f, t))
                  => (isValidHorseMove(Toggled(board, x), PieceAt(board, f), f, t)
                        <=> isValidHorseMove(board, PieceAt(board, f), f, t))

\* A horse has a move whose neighbour along the one-step is occupied and
\* whose leg is free.
C12_Witness ==
    \E f \in CellsOfType(board, "horse") : \E t \in Positions :
        /\ HorseOffset(f, t)
        /\ isValidMove(board, PieceAt(board, f), f, t)
        /\ \E x \in Occupied(board) :
            /\ x # HorseLeg(f, t)
            /\ Abs(x.row - f.row) + Abs(x.col - f.col) = 1

\* The occupied cells strictly between two cells of one row or column.
OccupiedBetween(b, f, t) ==
    {x \in Occupied(b) :
        \/ /\ f.row = t.row /\ x.row = f.row
           /\ x.col > Min(f.col, t.col) /\ x.col < Max(f.col, t.col)
        \/ /\ f.col = t.col /\ x.col = f.col
           /\ x.row > Min(f.row, t.row) /\ x.row < Max(f.row, t.row)}

\* C13: along a row or column, a cannon's move passes exactly when the
\* destination is empty and nothing stands between, or the destination
\* holds an opposing piece and exactly one piece stands between.
C13_CannonRule ==
    \A f \in CellsOfType(board, "cannon") : \A t \in Positions :
        (t # f /\ (t.row = f.row \/ t.col = f.col)) =>
            LET between == Cardinality(OccupiedBetween(board, f, t))
                expected ==
                    \/ PieceAt(board, t) = null /\ between = 0
                    \/ /\ PieceAt(board, t) # null
                       /\ PieceAt(board, t).color # PieceAt(board, f).color
                       /\ between = 1
            IN  /\ isValidBasicMoveOnly(board, PieceAt(board, f), f, t) <=> expected
                /\ (PieceAt(board, t) = null
                      \/ PieceAt(board, t).color # PieceAt(board, f).color)
                   => (isValidCannonMove(board, PieceAt(board, f), f, t) <=> expected)

\* After a move the cannon at (7,1) can take the piece at (7,7) over exactly
\* one screen.
C13_Witness ==
    /\ moveCount > 0
    /\ PieceAt(board, Pos(7, 1)).type = "cannon"
    /\ board[7][7] # null
    /\ Cardinality(OccupiedBetween(board, Pos(7, 1), Pos(7, 7))) = 1
    /\ isValidMove(board, board[7][1], Pos(7, 1), Pos(7, 7))

\* C14: a soldier's move is one step and never diagonal; a red soldier's
\* row never increases and a black soldier's never decreases; on its own
\* side of the river (red rows 5-9, black rows 0-4) the only step is
\* straight forward.
C14_SoldierNeverRetreats ==
    \A f \in CellsOfType(board, "soldier") : \A t \in Positions :
        (\/ isValidSoldierMove(board, PieceAt(board, f), f, t)
         \/ isValidMove(board, PieceAt(board, f), f, t)) =>
            LET red == PieceAt(board, f).color = "red"
                forward == IF red THEN -1 ELSE 1
                ownSide == IF red THEN f.row >= 5 ELSE f.row <= 4
            IN  /\ Abs(t.row - f.row) + Abs(t.col - f.col) = 1
                /\ IF red THEN t.row <= f.row ELSE t.row >= f.row
                /\ t.row # f.row => t.row - f.row = forward
                /\ ownSide => (t.row - f.row = forward /\ t.col = f.col)

\* A soldier beyond the river has just stepped sideways.
C14_Witness ==
    /\ moveCount > 0
    /\ lastMove.piece.type = "soldier"
    /\ lastMove.from.row = lastMove.to.row

\* C15: the elephant rule passes exactly when the destination is on the
\* elephant's own side (red rows >= 5, black rows <= 4), the offset is two
\* rows and two columns and the diagonal midpoint is empty; an elephant at
\* (9,2) with a piece at (8,3) cannot reach (7,4).
C15_ElephantRule ==
    /\ \A f \in CellsOfType(board, "elephant") : \A t \in Positions :
        isValidElephantMove(board, PieceAt(board, f), f, t) <=>
            /\ IF PieceAt(board, f).color = "red" THEN t.row >= 5 ELSE t.row <= 4
            /\ Abs(t.row - f.row) = 2
            /\ Abs(t.col - f.col) = 2
            /\ board[(f.row + t.row) \div 2][(f.col + t.col) \div 2] = null
    /\ (PieceAt(board, Pos(9, 2)).type = "elephant" /\ board[8][3] # null) =>
        /\ ~isValidMove(board, board[9][2], Pos(9, 2), Pos(7, 4))
        /\ Pos(7, 4) \notin Range(getValidMoves(board, board[9][2], Pos(9, 2)))

\* The elephant at (9,2) has its eye (8,3) filled and (7,4) empty, and an
\* elephant on the river bank has a free eye towards the far side.
C15_Witness ==
    /\ PieceAt(board, Pos(9, 2)).type = "elephant"
    /\ board[8][3] # null
    /\ board[7][4] = null
    /\ \E f \in CellsOfType(board, "elephant") : \E t \in Positions :
        /\ Abs(t.row - f.row) = 2 /\ Abs(t.col - f.col) = 2
        /\ board[(f.row + t.row) \div 2][(f.col + t.col) \div 2] = null
        /\ ~isInOwnTerritory(t, PieceAt(board, f).color)

\* Minimax without pruning: the same legal moves, leaf evaluation and
\* terminal scores as minimax, every move of every node searched.
RECURSIVE plainMinimax(_, _, _, _)
RECURSIVE plainFold(_, _, _, _, _, _, _)

plainFold(b, moves, color, depth, isMaximizing, i, acc) ==
    IF i > Len(moves) THEN acc
    ELSE
        LET eval == plainMinimax(simulateMove(b, moves[i]), color, depth - 1, ~isMaximizing)
        IN  plainFold(b, moves, color, depth, isMaximizing, i + 1,
                      IF isMaximizing THEN Max(acc, eval) ELSE Min(acc, eval))

plainMinimax(b, color, depth, isMaximizing) ==
    IF depth = 0 THEN evaluatePosition(b, color)
    ELSE
        LET currentColor == IF isMaximizing THEN color ELSE enemyOf(color)
        IN  IF isCheckmate(b, currentColor)
            THEN (IF isMaximizing THEN -10000 ELSE 10000)
            ELSE
                LET moves == getAllPossibleMoves(b, currentColor)
                IN  IF Len(moves) = 0 THEN 0
                    ELSE plainFold(b, moves, color, depth, isMaximizing, 1,
                                   IF isMaximizing THEN 0 - Infinity ELSE Infinity)

\* The plain minimax value of every root move when the reply is searched to
\* the given depth.
RootValues(b, color, depth) ==
    LET moves == getAllPossibleMoves(b, color)
    IN  [i \in 1..Len(moves) |->
            plainMinimax(simulateMove(b, moves[i]), color, depth, FALSE)]

\* i is the first index of a maximal value of vals.
FirstMaximum(vals, i) ==
    /\ \A j \in DOMAIN vals : vals[j] <= vals[i]
    /\ \A j \in DOMAIN vals : j < i => vals[j] < vals[i]

\* C18: with the full window minimax returns the value of plain minimax, for
\* remaining depth 0, 1 and 2 and either side to move, and getHardMove
\* returns the first root move of maximal plain minimax value.
C18_AlphaBetaEqualsMinimax ==
    (aiPc = "thinking" /\ aiDifficulty.randomness = 0) =>
        /\ \A isMaximizing \in BOOLEAN :
              minimax(board, aiColor, aiDifficulty.depth - 1, isMaximizing,
                      0 - Infinity, Infinity)
                = plainMinimax(board, aiColor, aiDifficulty.depth - 1, isMaximizing)
        /\ aiDifficulty.depth = 3 =>
              LET moves == getAllPossibleMoves(board, aiColor)
                  vals == RootValues(board, aiColor, 2)
                  best == getHardMove(board, moves, aiColor, 3)
              IN  Len(moves) > 0 =>
                    \E i \in 1..Len(moves) :
                        /\ moves[i] = best
                        /\ FirstMaximum(vals, i)

\* A search of remaining depth 2 in which a minimizing node is cut off: a
\* reply before its last one scores no more than the best earlier root move.
C18_Witness ==
    /\ aiPc = "thinking"
    /\ aiDifficulty.depth = 3
    /\ aiDifficulty.randomness = 0
    /\ LET moves == getAllPossibleMoves(board, aiColor)
           vals == RootValues(board, aiColor, 1)
       IN  \E i \in 2..Len(moves) :
               LET nb == simulateMove(board, moves[i])
                   replies == getAllPossibleMoves(nb, enemyOf(aiColor))
               IN  /\ ~isCheckmate(nb, enemyOf(aiColor))
                   /\ \E k \in 1..(Len(replies) - 1) : \E j \in 1..(i - 1) :
                          evaluatePosition(simulateMove(nb, replies[k]), aiColor) <= vals[j]

\* The index of the returned move among the root moves.
ResultIsMaximal(vals) ==
    LET moves == getAllPossibleMoves(board, aiColor)
    IN  \E i \in 1..Len(moves) :
            /\ moves[i] = aiResult
            /\ \A j \in 1..Len(moves) : vals[j] <= vals[i]

SearchDone ==
    /\ aiPc = "done"
    /\ aiDifficulty.randomness = 0
    /\ aiResult # NoMove

C20_MateScoreDepthAdjusted ==
    isCheckmate(board, currentPlayer) =>
        /\ minimax(board, enemyOf(currentPlayer), 2, FALSE, 0 - Infinity, Infinity)
             > minimax(board, enemyOf(currentPlayer), 1, FALSE, 0 - Infinity, Infinity)
        /\ minimax(board, currentPlayer, 2, TRUE, 0 - Infinity, Infinity)
             < minimax(board, currentPlayer, 1, TRUE, 0 - Infinity, Infinity)

\* The caller's board as it reads after a call that left the heap h.
CallerBoardAfter(h) == deref(h, callerRef)

\* C17: after isValidMove, getValidMoves, isInCheck, isCheckmate (for any
\* piece, destination and colour) and after getBestMove (for the engine's
\* colour and difficulty) every cell of the caller's board holds what it
\* held before the call, whatever the result.
C17_CallerBoardUnchanged ==
    LET heap == heapOf(board)
    IN  /\ aiPc = "idle" =>
            /\ \A from \in Occupied(board) :
                /\ \A to \in Positions :
                      CallerBoardAfter(isValidMoveCall(heap, callerRef,
                                           PieceAt(board, from), from, to).heap) = board
                /\ CallerBoardAfter(getValidMovesCall(heap, callerRef,
                                        PieceAt(board, from), from).heap) = board
            /\ \A color \in PieceColors :
                /\ CallerBoardAfter(isInCheckCall(heap, callerRef, color).heap) = board
                /\ CallerBoardAfter(isCheckmateCall(heap, callerRef, color).heap) = board
        /\ aiPc = "thinking" =>
              CallerBoardAfter(getBestMoveCall(heap, callerRef, aiColor, aiDifficulty).heap)
                = board

\* A depth-3 search is running on a board where the searching side is in
\* check and has a move: isValidMove, isCheckmate and simulateMove all
\* write to their copies.
C17_Witness ==
    /\ aiPc = "thinking"
    /\ aiDifficulty.depth = 3
    /\ isInCheck(board, aiColor)
    /\ Len(getAllPossibleMoves(board, aiColor)) > 0

\* The calls return what the rule and search operators compute.
CallResultsAgree ==
    LET heap == heapOf(board)
    IN  /\ aiPc = "idle" =>
            /\ \A from \in Occupied(board) :
                 getValidMovesCall(heap, callerRef, PieceAt(board, from), from).result
                    = getValidMoves(board, PieceAt(board, from), from)
            /\ \A color \in PieceColors :
                 isCheckmateCall(heap, callerRef, color).result = isCheckmate(board, color)
        /\ aiPc = "thinking" =>
              getBestMoveCall(heap, callerRef, aiColor, aiDifficulty).result
                = IF Len(getAllPossibleMoves(board, aiColor)) = 0 THEN {NoMove}
                  ELSE strategyMoves(board, getAllPossibleMoves(board, aiColor),
                                     aiColor, aiDifficulty)

\* C16: when a search returns whose board is no longer the board of the
\* game (resetGame or another change of state happened while it was
\* pending), board, currentPlayer, moveHistory and capturedPieces stay as
\* they are.
C16_StaleResultAbandoned ==
    [][\A i \in 1..Len(aiPending) :
          (aiPending' = removeAt(aiPending, i) /\ aiPending[i].board # board)
          => UNCHANGED <<board, currentPlayer, moveHistory, capturedPieces>>]_vars

(***************************************************************************)
(* The game hook: status, turns, pieces, undo and the operation lock       *)
(***************************************************************************)

\* C21: in every reachable state in which the player to move has no legal
\* move on the board (checkmate or stalemate), gameStatus is a terminal
\* status and not 'playing'.
C21_NoMoveIsTerminal ==
    Len(getAllPossibleMoves(board, currentPlayer)) = 0 => gameStatus # "playing"

\* C22: when FastAIEngine.getBestMove has returned, its result is a legal
\* move of the searching colour whenever that colour has a legal move,
\* wherever the clock passed its limits, and null only when it has none.
C22_OverrunReturnsLegalMove ==
    aiPc = "done" =>
        LET allMoves == getAllPossibleMoves(board, aiColor)
        IN  IF Len(allMoves) = 0 THEN aiResult = NoMove
            ELSE aiResult \in Range(allMoves)

\* A step that is a call of undoMove past its early return.
UndoMoveCalled == undoMoveRuns /\ unlockTimers' = unlockTimers + 1

\* C23: in an AI game mode, undoMove called on the player's (red's) turn
\* with at least two moves in the history takes back two moves: the history
\* loses its last two moves, the board is the one before the player's last
\* move, and it is red's turn.
C23_UndoTakesBackTwo ==
    [][(/\ UndoMoveCalled
        /\ gameMode # "pvp"
        /\ currentPlayer = "red"
        /\ Len(moveHistory) >= 2)
       => /\ moveHistory' = SubSeq(moveHistory, 1, Len(moveHistory) - 2)
          /\ board' = undoLast(undoLast([board |-> board, moveHistory |-> moveHistory,
                                         capturedPieces |-> capturedPieces])).board
          /\ currentPlayer' = "red"]_vars

\* C24: in every reachable state of the game the board holds exactly one
\* red general and exactly one black general.
C24_OneGeneralPerColour == OneKingEach(board)

\* The pieces of a colour on the board.
piecesOnBoard(color) ==
    {board[p.row][p.col] : p \in {q \in Positions : /\ board[q.row][q.col] # null
                                                    /\ board[q.row][q.col].color = color}}

\* C25: in every reachable state of the game, for each colour the pieces of
\* that colour on the board and those in capturedPieces are 16 together,
\* and no piece is both on the board and in the captured list.
C25_PiecesConserved ==
    \A color \in PieceColors :
        /\ Cardinality(piecesOnBoard(color)) + Len(capturedPieces[color]) = 16
        /\ \A i \in 1..Len(capturedPieces[color]) :
              \A piece \in piecesOnBoard(color) : piece.id # capturedPieces[color][i].id

\* C26: in every reachable state of the game the moving pieces of
\* moveHistory are red, black, red, ... in turn, and currentPlayer is red
\* exactly when moveHistory has even length.
C26_TurnsAlternate ==
    /\ \A i \in 1..Len(moveHistory) :
          moveHistory[i].piece.color = (IF i % 2 = 1 THEN "red" ELSE "black")
    /\ currentPlayer = "red" <=> Len(moveHistory) % 2 = 0

\* C27: in every reachable state of the game, after every move, undoMove,
\* resetGame and setGameMode, gameState.isInCheck is
\* isInCheck(gameState.board, gameState.currentPlayer).
C27_CheckFlagMatchesBoard ==
    stateIsInCheck = isInCheck(board, currentPlayer)

\* undoMove has just put back a position in which the player to move is in
\* check.
C27_Witness ==
    /\ stateIsInCheck
    /\ isInCheck(board, currentPlayer)
    /\ operationLock
    /\ Len(moveHistory) > 0

\* C28: in pvp mode, in every reachable state with gameStatus 'playing' and
\* for every legal move of the current player, the move followed by
\* undoMove gives back the board, currentPlayer, moveHistory, capturedPieces
\* and isInCheck of the state before the move.
C28_MoveUndoRoundTrip ==
    (gameMode = "pvp" /\ gameStatus = "playing") =>
        \A move \in Range(getAllPossibleMoves(board, currentPlayer)) :
            LET moved == movedState(gameState, move.piece, move.capturedPiece,
                                    move.from, move.to)
                undone == undoneState(moved)
            IN  /\ undone.board = board
                /\ undone.currentPlayer = currentPlayer
                /\ undone.moveHistory = moveHistory
                /\ undone.capturedPieces = capturedPieces
                /\ undone.isInCheck = stateIsInCheck

\* C29: in every reachable state of the game, gameStatus is 'checkmate'
\* exactly when isCheckmate(board, currentPlayer), the winner is then the
\* other colour, and otherwise winner is null.
C29_StatusTracksBoard ==
    /\ gameStatus = "checkmate" <=> isCheckmate(board, currentPlayer)
    /\ winner = (IF gameStatus = "checkmate" THEN enemyOf(currentPlayer) ELSE "null")

\* C30: the operation lock is never left held: whenever operationLock is
\* true it is eventually false again.
C30_LockReleased == operationLock ~> ~operationLock

====
